---- MODULE Spec2Model ----
(***************************************************************************)
(* Passwordless login of chatterbox-express: AuthService                   *)
(* (src/src/services/emailService.js, second half), the authentication     *)
(* controller (src/src/controllers/backupController.js, lines 58-200), the *)
(* global error handler (src/src/middlewares/errorHandler.js) and the      *)
(* accounts / login_attempts tables of 001_initial_tables.sql              *)
(* (src/unnamed/part_001); EmailService.sendLoginCode (emailService.js,    *)
(* first half), authenticateJWT (src/src/middlewares/auth.js) and the      *)
(* routes that use it (src/src/routes/auth.js, src/unnamed/part_002); the  *)
(* in-memory rate limiter (src/src/middlewares/rateLimit.js), the backup   *)
(* job (src/unnamed/part_007), graceful shutdown (src/unnamed/part_003)    *)
(* and the migrations (src/src/services/authService.js, second half).      *)
(*                                                                         *)
(* Every awaited database statement is one atomic step of the request      *)
(* that issues it; requests interleave between statements.  The database   *)
(* is PostgreSQL at its default isolation level (read committed): a        *)
(* select sees the committed rows, an update takes the row lock and waits  *)
(* for the transaction that holds it, a commit publishes the update.       *)
(* The database clock is counted in minutes, the server clock that dates   *)
(* the tokens in days.  A call to the database or to the email provider    *)
(* that fails is a step of its own in the specifications that allow it.    *)
(***************************************************************************)
EXTENDS Integers, Sequences, FiniteSets, Bags, TLC

(* ---- bounds of the model ---- *)
MaxAttempts == 2       \* login_attempts rows a run may insert
MaxTime == 11          \* last minute of the clock in sequential runs
MaxTimeConc == 1       \* last minute of the clock in concurrent runs
MaxDay == 31           \* last day of the server clock
MaxClock == 3          \* last minute of the rate limiter's clock, direct calls
MaxCount == 3          \* calls counted for a key in one window, direct calls
MaxPresetClock == 6    \* last minute of the rate limiter's clock, preset routes
MaxCandidates == 2     \* candidate attempts a verifyLoginCode call compares
MaxRetries == 2        \* largest MAX_RETRIES of the backup job
MaxSignals == 2        \* shutdown signals and uncaught errors the server process gets
MaxStarts == 2         \* times the server process is started on one database

(* ---- program constants ---- *)
rateLimitMinutes == 1
loginCodeExpiryMinutes == 10
LockoutWindowMinutes == 60
LockoutThreshold == 10
jwtExpiresInDays == 30
baseDelaySeconds == 60
forceShutdownSeconds == 10

Procs == {1, 2}   \* request slots: the requests in flight at once
Emails == {"a@x.com", "b@x.com"}
Codes == {<<1, 2, 3, 4, 5, 6>>, <<6, 5, 4, 3, 2, 1>>}
NoCode == <<>>
SeedEmail == "a@x.com"
SeedCode == <<1, 2, 3, 4, 5, 6>>
jwtSecret == "JWT_SECRET"
NoAttempt == 0
NoAccount == 0

LockedMessage == "Account temporarily locked due to too many failed attempts. Please try again later."

VARIABLES
  now,             \* the database clock now(), in minutes
  login_attempts,  \* table login_attempts; attemptid is the index
  accounts,        \* table accounts
  accounts_seq,    \* last value of the serial behind accounts.accountid
  pc,              \* per request slot: the statement it runs next
  req,             \* per request slot: the request body
  loc,             \* per request slot: the handler's local variables
  resp,            \* per request slot: the response sent, until the next request
  issued,          \* history: tokens issued so far, per email
  consumed,        \* history: per attemptid, the commits that marked it used
  failed_verifies, \* history: verifyLogin calls answered 401, per email
  clients,         \* pooled database clients checked out and not yet released
  outbox,          \* bag of the login-code emails handed to the email provider
  fault,           \* history: per request slot, the call that failed in its request
  date_now,        \* the server clock Date.now(), in days
  api,             \* the request to a token-protected route that is in flight
  rl_now,          \* Date.now() as the rate limiter reads it, in minutes
  requests,        \* RateLimiter.requests: key -> {count, resetTime}
  rl_last,         \* the last isAllowed call: its arguments and its result
  rl_window,       \* history: per key, its current window and the calls allowed in it
  rl_kept,         \* history: RateLimiter.requests had cleanup() never run
  timing,          \* two verifyLoginCode calls on different stored codes, and their cost
  backup,          \* the backup job: its configuration, position and requests
  server,          \* the server process: HTTP server, pool, shutdown in progress
  migration        \* the migrations folder, the migrations table, runMigrations

loginVars == <<now, login_attempts, accounts, accounts_seq, pc, req, loc, resp,
               issued, consumed, failed_verifies, clients, outbox, fault>>
apiVars == <<date_now, api>>
rlVars == <<rl_now, requests, rl_last, rl_window, rl_kept>>
serviceVars == <<rlVars, timing, backup, server, migration>>
vars == <<loginVars, apiVars, serviceVars>>

NoReq == [op |-> "none", email |-> "", code |-> NoCode]
NoLoc == [recent |-> 0, loginCode |-> NoCode, matched |-> NoAttempt, accountId |-> NoAccount]
\* a signed token: the claims of its payload and the secret that signed it
NoToken == [accountId |-> NoAccount, email |-> "", iat |-> 0, nbf |-> 0, exp |-> 0, key |-> ""]
NoResp == [status |-> 0, error |-> "", message |-> "", token |-> NoToken]
NoFault == [op |-> "none", step |-> "none"]

Response(status, error, message) ==
  [status |-> status, error |-> error, message |-> message, token |-> NoToken]

(* ---- errorHandler.js ---- *)
JwtMessages == {"jwt expired", "jwt malformed", "jwt must be provided"}

\* errorHandler(err, req, res, next): the response for an error passed to next()
errorHandler(err) ==
  IF err.name = "ValidationError"
    THEN Response(400, "VALIDATION_ERROR", err.message)
  ELSE IF err.name = "UnauthorizedError" \/ err.message \in JwtMessages
    THEN Response(401, "UNAUTHORIZED", "Unauthorized")
  ELSE IF err.name = "ForbiddenError"
    THEN Response(403, "FORBIDDEN", "Forbidden")
  ELSE IF err.name = "NotFoundError"
    THEN Response(404, "NOT_FOUND", "Resource not found")
  ELSE IF err.name = "TooManyRequestsError"
    THEN Response(429, "RATE_LIMIT_EXCEEDED", "Too many requests")
  ELSE IF err.statusCode >= 400 /\ err.statusCode < 600
    THEN Response(err.statusCode, "INTERNAL_ERROR", err.message)
  ELSE Response(500, "INTERNAL_ERROR", "Internal Server Error")

\* new Error(message): a plain Error has the name "Error" and no statusCode
PlainError(message) == [name |-> "Error", message |-> message, statusCode |-> 0]

(* ---- AuthService: queries ---- *)
AttemptIds == DOMAIN login_attempts

\* crypto.timingSafeEqual on the utf8 bytes of two codes
timingSafeEqual(a, b) ==
  /\ Len(a) = Len(b)
  /\ \A i \in 1..Len(a) : a[i] = b[i]

\* recentQuery with an interval far shorter than rateLimitMinutes minutes
recentAttemptsShortWindow(email) ==
  {i \in AttemptIds :
     /\ login_attempts[i].email = email
     /\ login_attempts[i].created_at > now}

\* recentQuery of canRequestLoginCode: attempts of the last rateLimitMinutes
recentAttempts(email) ==
  {i \in AttemptIds :
     /\ login_attempts[i].email = email
     /\ login_attempts[i].created_at > now - rateLimitMinutes}

\* lockoutQuery without the created_at condition
failedAttemptsEver(email) ==
  {i \in AttemptIds :
     /\ login_attempts[i].email = email
     /\ login_attempts[i].is_used = FALSE}


\* lockoutQuery of canRequestLoginCode: unused attempts of the last hour
failedAttempts(email) ==
  {i \in AttemptIds :
     /\ login_attempts[i].email = email
     /\ login_attempts[i].created_at > now - LockoutWindowMinutes
     /\ login_attempts[i].is_used = FALSE}

\* the lockout test of canRequestLoginCode
isLocked(email) == Cardinality(failedAttempts(email)) >= LockoutThreshold

\* the select without "is_used = false"
validAttemptsAnyUse(email) ==
  {i \in AttemptIds :
     /\ login_attempts[i].email = email
     /\ login_attempts[i].created_at > now - loginCodeExpiryMinutes}

\* the select without the created_at condition
validAttemptsNoExpiry(email) ==
  {i \in AttemptIds :
     /\ login_attempts[i].email = email
     /\ login_attempts[i].is_used = FALSE}

\* the select of verifyLoginCode: unused, unexpired attempts of the email
validAttempts(email) ==
  {i \in AttemptIds :
     /\ login_attempts[i].email = email
     /\ login_attempts[i].is_used = FALSE
     /\ login_attempts[i].created_at > now - loginCodeExpiryMinutes}

\* the rows of the select whose code compares equal to the supplied code
matchingAttempts(email, code) ==
  {i \in validAttempts(email) : timingSafeEqual(login_attempts[i].code, code)}

\* a loop that looks at the newest row of the select only
firstMatchesNewestOnly(email, code) ==
  {i \in matchingAttempts(email, code) :
     \A j \in validAttempts(email) :
        login_attempts[j].created_at <= login_attempts[i].created_at}


\* the loop of verifyLoginCode stops at the first match in created_at desc
\* order; rows of equal created_at come in either order
firstMatches(email, code) ==
  {i \in matchingAttempts(email, code) :
     \A j \in matchingAttempts(email, code) :
        login_attempts[j].created_at <= login_attempts[i].created_at}

\* accounts.email is declared unique
emailTaken(email) == \E k \in DOMAIN accounts : accounts[k].email = email

\* accounts.email declared without "unique"
noUniqueViolation(email) == FALSE

\* the insert of createAccount violates that constraint
uniqueViolation(email) == emailTaken(email)

\* select * from accounts where email = $1
accountOf(email) ==
  IF emailTaken(email)
    THEN (CHOOSE k \in DOMAIN accounts : accounts[k].email = email)
    ELSE 0

\* the row lock an open verifyLoginCode transaction holds after its update
holdsLock(q, i) == pc[q] \in {"commit", "rollback"} /\ loc[q].matched = i /\ i # NoAttempt

\* requests that have passed canRequestLoginCode and still insert a row
inserting == {q \in Procs : pc[q] \in {"lockout", "store"}}

(* ---- the pool of database clients ---- *)
\* pool.connect() resolves: one more client is checked out
connect(n) == n + 1

\* a release that is never made
releaseSkipped(n) == n

\* client.release() in a finally block
release(n) == n - 1

(* ---- requests to the token-protected routes ---- *)
NoHeader == [scheme |-> "none", wellformed |-> FALSE, token |-> NoToken]
NoUser == [accountId |-> NoAccount, email |-> ""]
NoApi == [endpoint |-> "", header |-> NoHeader, step |-> 0, status |-> 0,
          error |-> "", user |-> NoUser, account |-> NoUser, handled |-> FALSE]

(* ---- rate limiter: the records of RateLimiter.requests ---- *)
Keys == {"10.0.0.1", "10.0.0.2"}
\* requests.has(key) is false
NoRecord == [count |-> 0, resetTime |-> 0 - 1]
NoCall ==
  LET NoResult == [allowed |-> FALSE, count |-> 0, resetTime |-> 0,
                   remaining |-> 0, retryAfter |-> 0]
  IN [key |-> "", limit |-> 0, windowMs |-> 0, result |-> NoResult,
      kept |-> NoResult, cleaned |-> FALSE, outcome |-> ""]
NoWindow == [resetTime |-> 0 - 1, allowed |-> 0]

(* ---- the other parts of the system, before they have run ---- *)
\* no verifyLoginCode call measured yet
NoTiming == [variant |-> "", code |-> NoCode, rows |-> <<<<>>, <<>>>>,
             matched |-> <<0, 0>>, time |-> <<0, 0>>]
\* the backup job has not been started
NoExit == 0 - 1
NoBackup == [pc |-> "off", maxRetries |-> 0, attempt |-> 0, requests |-> <<>>,
             sleeps |-> <<>>, exit |-> NoExit]
\* the server after startServer(): listening, the pool open, no shutdown begun
Listening == [http |-> "listening", pool |-> "open", shutdowns |-> 0,
              callbacks |-> 0, timers |-> <<>>, elapsed |-> 0, exit |-> NoExit]
\* the files a migrations folder may hold, in ascending order of their names
SortedFiles ==
  <<"001_initial_tables.sql", "002_add_position_column.sql",
    "003_assign_positions.sql", "README.md">>
Files == {SortedFiles[i] : i \in DOMAIN SortedFiles}
\* no transaction open
NoTx == [file |-> "", sql |-> FALSE, recorded |-> FALSE]
\* DatabaseService.initialize() has not been called; the database is new
NoMigration ==
  [pc |-> "off", starts |-> 0, isInitialized |-> FALSE, folder |-> {},
   table |-> {}, applied |-> [f \in Files |-> 0], pending |-> <<>>,
   executed |-> <<>>, tx |-> NoTx]

\* the state of everything other than login and the protected routes; new
\* RateLimiter() has an empty map
InitServices ==
  /\ rl_now = 0
  /\ requests = [k \in Keys |-> NoRecord]
  /\ rl_last = NoCall
  /\ rl_window = [k \in Keys |-> NoWindow]
  /\ rl_kept = [k \in Keys |-> NoRecord]
  /\ timing = NoTiming
  /\ backup = NoBackup
  /\ server = Listening
  /\ migration = NoMigration

(* ---- state after startup: empty tables, no request in flight ---- *)
Init ==
  /\ now = 0
  /\ login_attempts = <<>>
  /\ accounts = <<>>
  /\ accounts_seq = 0
  /\ pc = [p \in Procs |-> "idle"]
  /\ req = [p \in Procs |-> NoReq]
  /\ loc = [p \in Procs |-> NoLoc]
  /\ resp = [p \in Procs |-> NoResp]
  /\ issued = [e \in Emails |-> 0]
  /\ consumed = <<>>
  /\ failed_verifies = [e \in Emails |-> 0]
  /\ clients = 0
  /\ outbox = EmptyBag
  /\ fault = [p \in Procs |-> NoFault]
  /\ date_now = 0
  /\ api = NoApi
  /\ InitServices

\* the handler of slot p ends with response r
Finish(p, r) ==
  /\ pc' = [pc EXCEPT ![p] = "idle"]
  /\ loc' = [loc EXCEPT ![p] = NoLoc]
  /\ resp' = [resp EXCEPT ![p] = r]

(* ---- the clock ---- *)
Tick(bound) ==
  /\ now < bound
  /\ now' = now + 1
  /\ UNCHANGED <<login_attempts, accounts, accounts_seq, pc, req, loc, resp,
                 issued, consumed, failed_verifies, clients, outbox, fault>>
  /\ UNCHANGED <<apiVars, serviceVars>>

(* ---- POST /auth/request-login ---- *)
\* requestLogin up to the first query of canRequestLoginCode
requestLogin(p, email, cap) ==
  /\ pc[p] = "idle"
  /\ Len(login_attempts) + Cardinality(inserting) < cap
  /\ req' = [req EXCEPT ![p] = [op |-> "requestLogin", email |-> email, code |-> NoCode]]
  /\ loc' = [loc EXCEPT ![p] = [NoLoc EXCEPT !.recent = Cardinality(recentAttempts(email))]]
  /\ pc' = [pc EXCEPT ![p] = "lockout"]
  /\ resp' = [resp EXCEPT ![p] = NoResp]
  /\ clients' = connect(clients)
  /\ fault' = [fault EXCEPT ![p] = NoFault]
  /\ UNCHANGED <<now, login_attempts, accounts, accounts_seq, issued, consumed,
                 failed_verifies, outbox>>
  /\ UNCHANGED <<apiVars, serviceVars>>

\* a canRequestLoginCode whose caller stores the attempt before it looks at
\* the answer
lockoutQueryStoresFirst(p) ==
  /\ pc[p] = "lockout"
  /\ IF isLocked(req[p].email)
       THEN Finish(p, errorHandler(PlainError(LockedMessage)))
     ELSE IF loc[p].recent # 0
       THEN Finish(p, Response(429, "Rate limit exceeded",
                               "Please wait before requesting another code"))
     ELSE /\ pc' = [pc EXCEPT ![p] = "store"]
          /\ UNCHANGED <<loc, resp>>
  /\ clients' = release(clients)
  /\ login_attempts' = Append(login_attempts,
       [email |-> req[p].email, code |-> SeedCode, created_at |-> now, is_used |-> FALSE])
  /\ consumed' = Append(consumed, 0)
  /\ UNCHANGED <<now, accounts, accounts_seq, req, issued,
                 failed_verifies, outbox, fault>>
  /\ UNCHANGED <<apiVars, serviceVars>>

\* the second query of canRequestLoginCode and requestLogin's test of its result
lockoutQuery(p) ==
  /\ pc[p] = "lockout"
  /\ IF isLocked(req[p].email)
       THEN Finish(p, errorHandler(PlainError(LockedMessage)))
     ELSE IF loc[p].recent # 0
       THEN Finish(p, Response(429, "Rate limit exceeded",
                               "Please wait before requesting another code"))
     ELSE /\ pc' = [pc EXCEPT ![p] = "store"]
          /\ UNCHANGED <<loc, resp>>
  /\ clients' = release(clients)
  /\ UNCHANGED <<now, login_attempts, accounts, accounts_seq, req, issued, consumed,
                 failed_verifies, outbox, fault>>
  /\ UNCHANGED <<apiVars, serviceVars>>

\* generateLoginCode and storeLoginAttempt
storeLoginAttempt(p) ==
  /\ pc[p] = "store"
  /\ \E code \in Codes :
       /\ login_attempts' = Append(login_attempts,
            [email |-> req[p].email, code |-> code, created_at |-> now, is_used |-> FALSE])
       /\ loc' = [loc EXCEPT ![p].loginCode = code]
  /\ consumed' = Append(consumed, 0)
  /\ pc' = [pc EXCEPT ![p] = "send"]
  /\ clients' = release(connect(clients))
  /\ UNCHANGED <<now, accounts, accounts_seq, req, resp, issued, failed_verifies,
                 outbox, fault>>
  /\ UNCHANGED <<apiVars, serviceVars>>

\* emailService.sendLoginCode and the success response
sendLoginCode(p) ==
  /\ pc[p] = "send"
  /\ outbox' = outbox (+) SetToBag({[to |-> req[p].email, code |-> loc[p].loginCode]})
  /\ Finish(p, Response(200, "", "Login code sent to your email"))
  /\ UNCHANGED <<now, login_attempts, accounts, accounts_seq, req, issued, consumed,
                 failed_verifies, clients, fault>>
  /\ UNCHANGED <<apiVars, serviceVars>>

(* ---- POST /auth/verify-login ---- *)
\* verifyLogin up to the select and the comparison loop of verifyLoginCode
verifyLogin(p, email, code) ==
  /\ pc[p] = "idle"
  /\ req' = [req EXCEPT ![p] = [op |-> "verifyLogin", email |-> email, code |-> code]]
  /\ resp' = [resp EXCEPT ![p] = NoResp]
  /\ IF firstMatches(email, code) = {}
       THEN /\ loc' = [loc EXCEPT ![p] = NoLoc]
            /\ pc' = [pc EXCEPT ![p] = "commit"]
       ELSE \E i \in firstMatches(email, code) :
            /\ loc' = [loc EXCEPT ![p] = [NoLoc EXCEPT !.matched = i]]
            /\ pc' = [pc EXCEPT ![p] = "update"]
  /\ clients' = connect(clients)
  /\ fault' = [fault EXCEPT ![p] = NoFault]
  /\ UNCHANGED <<now, login_attempts, accounts, accounts_seq, issued, consumed,
                 failed_verifies, outbox>>
  /\ UNCHANGED <<apiVars, serviceVars>>

\* update login_attempts set is_used = true where attemptid = $1
verifyUpdate(p) ==
  /\ pc[p] = "update"
  /\ \A q \in Procs \ {p} : ~holdsLock(q, loc[p].matched)
  /\ pc' = [pc EXCEPT ![p] = "commit"]
  /\ UNCHANGED <<now, login_attempts, accounts, accounts_seq, req, loc, resp,
                 issued, consumed, failed_verifies, clients, outbox, fault>>
  /\ UNCHANGED <<apiVars, serviceVars>>

\* an update "where email = $1" that runs whether or not a code matched
committedAttemptsByEmail(p) ==
  [i \in AttemptIds |->
     IF login_attempts[i].email = req[p].email
       THEN [login_attempts[i] EXCEPT !.is_used = TRUE]
       ELSE login_attempts[i]]

\* the rows a commit of slot p publishes
committedAttempts(p) ==
  [i \in AttemptIds |->
     IF i = loc[p].matched
       THEN [login_attempts[i] EXCEPT !.is_used = TRUE]
       ELSE login_attempts[i]]

\* commit; without a match verifyLogin answers 401
verifyCommitStep(p) ==
  /\ pc[p] = "commit"
  /\ login_attempts' = committedAttempts(p)
  /\ consumed' = [i \in AttemptIds |->
       IF i = loc[p].matched THEN consumed[i] + 1 ELSE consumed[i]]
  /\ IF loc[p].matched = NoAttempt
       THEN Finish(p, Response(401, "Invalid or expired login code",
                       "The provided login code is invalid or has expired"))
       ELSE /\ pc' = [pc EXCEPT ![p] = "find"]
            /\ UNCHANGED <<loc, resp>>
  /\ clients' = release(clients)
  /\ UNCHANGED <<now, accounts, accounts_seq, req, issued, outbox, fault>>
  /\ UNCHANGED <<apiVars, serviceVars>>

verifyCommit(p) == verifyCommitStep(p) /\ UNCHANGED failed_verifies

\* the same step, observed by a counter of the 401 answers per email
verifyCommitCounted(p) ==
  /\ verifyCommitStep(p)
  /\ failed_verifies' =
       IF loc[p].matched = NoAttempt /\ failed_verifies[req[p].email] < LockoutThreshold
         THEN [failed_verifies EXCEPT ![req[p].email] = @ + 1]
         ELSE failed_verifies

\* completeLogin: findAccountByEmail
findAccountByEmail(p) ==
  /\ pc[p] = "find"
  /\ IF emailTaken(req[p].email)
       THEN /\ loc' = [loc EXCEPT ![p].accountId = accounts[accountOf(req[p].email)].accountid]
            /\ pc' = [pc EXCEPT ![p] = "touch"]
       ELSE /\ pc' = [pc EXCEPT ![p] = "create"]
            /\ UNCHANGED loc
  /\ clients' = release(connect(clients))
  /\ UNCHANGED <<now, login_attempts, accounts, accounts_seq, req, resp,
                 issued, consumed, failed_verifies, outbox, fault>>
  /\ UNCHANGED <<apiVars, serviceVars>>

\* completeLogin: createAccount; a unique violation fails the whole login
createAccount(p) ==
  /\ pc[p] = "create"
  /\ accounts_seq' = accounts_seq + 1
  /\ IF uniqueViolation(req[p].email)
       THEN /\ Finish(p, Response(500, "Login verification failed",
                   "login completion failed: database error creating account"))
            /\ UNCHANGED accounts
       ELSE /\ accounts' = Append(accounts,
                 [accountid |-> accounts_seq + 1, email |-> req[p].email])
            /\ loc' = [loc EXCEPT ![p].accountId = accounts_seq + 1]
            /\ pc' = [pc EXCEPT ![p] = "touch"]
            /\ UNCHANGED resp
  /\ clients' = release(connect(clients))
  /\ UNCHANGED <<now, login_attempts, req, issued, consumed, failed_verifies,
                 outbox, fault>>
  /\ UNCHANGED <<apiVars, serviceVars>>

\* a token that carries no account id
generateJWTNoAccount(accountId, email) ==
  [accountId |-> NoAccount, email |-> email, iat |-> date_now, nbf |-> 0,
   exp |-> date_now + jwtExpiresInDays, key |-> jwtSecret]

\* generateJWT(accountId, email): jwt.sign adds exp = iat + expiresIn and
\* signs payload and header with the server secret
generateJWT(accountId, email) ==
  [accountId |-> accountId, email |-> email, iat |-> date_now, nbf |-> 0,
   exp |-> date_now + jwtExpiresInDays, key |-> jwtSecret]

\* completeLogin: updateLastLogin, generateJWT and the success response.
\* last_login_at, like created_at and is_active of accounts, is a column no
\* statement of the program reads: the table is modelled without it.
updateLastLogin(p) ==
  /\ pc[p] = "touch"
  /\ Finish(p, [Response(200, "", "Login successful") EXCEPT
                  !.token = generateJWT(loc[p].accountId, req[p].email)])
  /\ issued' = [issued EXCEPT ![req[p].email] = @ + 1]
  /\ clients' = release(connect(clients))
  /\ UNCHANGED <<now, login_attempts, accounts, accounts_seq, req, consumed,
                 failed_verifies, outbox, fault>>
  /\ UNCHANGED <<apiVars, serviceVars>>

(* ---- specifications ---- *)
\* the statements the request slots of P may run
Handlers(P, E, cap) ==
  \/ \E p \in P, e \in E : requestLogin(p, e, cap)
  \/ \E p \in P : lockoutQuery(p)
  \/ \E p \in P : storeLoginAttempt(p)
  \/ \E p \in P : sendLoginCode(p)
  \/ \E p \in P, e \in E, c \in Codes : verifyLogin(p, e, c)
  \/ \E p \in P : verifyUpdate(p)
  \/ \E p \in P : findAccountByEmail(p)
  \/ \E p \in P : createAccount(p)
  \/ \E p \in P : updateLastLogin(p)

\* concurrent requests
Next ==
  \/ Tick(MaxTimeConc)
  \/ Handlers(Procs, {SeedEmail}, MaxAttempts)
  \/ \E p \in Procs : verifyCommit(p)
Spec == Init /\ [][Next]_vars

\* sequential use: one request at a time
NextSeq ==
  \/ Tick(MaxTime)
  \/ Handlers({1}, {SeedEmail}, MaxAttempts)
  \/ verifyCommit(1)
SpecSeq == Init /\ [][NextSeq]_vars

\* sequential use against a database that already holds the attempts of
\* LockoutThreshold - 1 earlier requestLogin calls for one email, made one
\* minute apart and never verified
SeedRows == LockoutThreshold - 1

\* the table after those calls, the first of them made at minute t0
SeedAttempts(t0) ==
  [i \in 1..SeedRows |->
     [email |-> SeedEmail, code |-> SeedCode, created_at |-> t0 + i - 1, is_used |-> FALSE]]

InitLockout ==
  /\ now = SeedRows - 1
  /\ login_attempts = SeedAttempts(0)
  /\ accounts = <<>>
  /\ accounts_seq = 0
  /\ pc = [p \in Procs |-> "idle"]
  /\ req = [p \in Procs |-> NoReq]
  /\ loc = [p \in Procs |-> NoLoc]
  /\ resp = [p \in Procs |-> NoResp]
  /\ issued = [e \in Emails |-> 0]
  /\ consumed = [i \in 1..SeedRows |-> 0]
  /\ failed_verifies = [e \in Emails |-> 0]
  /\ clients = 0
  /\ outbox = [m \in {[to |-> SeedEmail, code |-> SeedCode]} |-> SeedRows]
  /\ fault = [p \in Procs |-> NoFault]
  /\ date_now = 0
  /\ api = NoApi
  /\ InitServices

NextLockout ==
  \/ Tick(MaxTime)
  \/ Handlers({1}, {SeedEmail}, SeedRows + MaxAttempts)
  \/ verifyCommitCounted(1)
SpecLockout == InitLockout /\ [][NextLockout]_vars

\* no request in flight, nothing failed, the server clock at its origin
NoRequests ==
  /\ pc = [p \in Procs |-> "idle"]
  /\ req = [p \in Procs |-> NoReq]
  /\ loc = [p \in Procs |-> NoLoc]
  /\ resp = [p \in Procs |-> NoResp]
  /\ issued = [e \in Emails |-> 0]
  /\ failed_verifies = [e \in Emails |-> 0]
  /\ clients = 0
  /\ fault = [p \in Procs |-> NoFault]
  /\ date_now = 0
  /\ api = NoApi
  /\ InitServices

\* sequential use against a database that already holds an unused attempt of
\* another email, left by an earlier requestLogin
OtherEmail == "b@x.com"
OtherAttempt == [email |-> OtherEmail, code |-> SeedCode, created_at |-> 0, is_used |-> FALSE]

InitOthers ==
  /\ now = 0
  /\ login_attempts = <<OtherAttempt>>
  /\ consumed = <<0>>
  /\ outbox = SetToBag({[to |-> OtherEmail, code |-> SeedCode]})
  /\ accounts = <<>>
  /\ accounts_seq = 0
  /\ NoRequests

NextOthers ==
  \/ Tick(MaxTime)
  \/ Handlers({1}, {SeedEmail}, Len(<<OtherAttempt>>) + MaxAttempts)
  \/ verifyCommit(1)
SpecOthers == InitOthers /\ [][NextOthers]_vars

\* sequential use against the same seeded database, most of an hour after
\* its attempts were stored
InitExpiry ==
  /\ now = LockoutWindowMinutes - MaxAttempts
  /\ login_attempts = SeedAttempts(0)
  /\ consumed = [i \in 1..SeedRows |-> 0]
  /\ outbox = [m \in {[to |-> SeedEmail, code |-> SeedCode]} |-> SeedRows]
  /\ accounts = <<>>
  /\ accounts_seq = 0
  /\ NoRequests

NextExpiry ==
  \/ Tick(LockoutWindowMinutes + MaxAttempts)
  \/ Handlers({1}, {SeedEmail}, SeedRows + MaxAttempts)
  \/ verifyCommit(1)
SpecExpiry == InitExpiry /\ [][NextExpiry]_vars

(* ---- failures of the database and of the email provider ---- *)
\* the message of an error thrown by node-postgres
RawDbError == "Connection terminated unexpectedly"
\* the message of an error thrown by the Resend client
ResendError == "fetch failed"

\* the store operation a request runs at position pcv
StoreOp(pcv) ==
  CASE pcv = "lockout" -> "canRequestLoginCode"
    [] pcv = "store" -> "storeLoginAttempt"
    [] pcv = "find" -> "findAccountByEmail"
    [] pcv = "create" -> "createAccount"
    [] pcv = "touch" -> "updateLastLogin"
    [] OTHER -> "verifyLoginCode"

\* the error each store operation throws from its catch block
GenericError(op) ==
  CASE op = "canRequestLoginCode" -> "database error checking rate limit"
    [] op = "storeLoginAttempt" -> "database error storing login attempt"
    [] op = "verifyLoginCode" -> "database error verifying login code"
    [] op = "findAccountByEmail" -> "database error finding account"
    [] op = "createAccount" -> "database error creating account"
    [] OTHER -> ""

\* the catch of completeLogin
completionFailed(message) == "login completion failed: " \o message

\* the response after store operation op has thrown an error with this
\* message: canRequestLoginCode is called outside requestLogin's try, the
\* others inside the try of their controller, three of them by completeLogin
surfaced(op, message) ==
  IF op = "canRequestLoginCode" THEN errorHandler(PlainError(message))
  ELSE IF op = "storeLoginAttempt" THEN Response(500, "Failed to send login code", message)
  ELSE IF op = "verifyLoginCode" THEN Response(500, "Login verification failed", message)
  ELSE Response(500, "Login verification failed", completionFailed(message))

\* requestLogin: pool.connect() of canRequestLoginCode rejects
canRequestConnectFails(p, email) ==
  /\ pc[p] = "idle"
  /\ req' = [req EXCEPT ![p] = [op |-> "requestLogin", email |-> email, code |-> NoCode]]
  /\ fault' = [fault EXCEPT ![p] = [op |-> "canRequestLoginCode", step |-> "connect"]]
  /\ Finish(p, surfaced("canRequestLoginCode", RawDbError))
  /\ UNCHANGED <<now, login_attempts, accounts, accounts_seq, issued, consumed,
                 failed_verifies, clients, outbox>>
  /\ UNCHANGED <<apiVars, serviceVars>>

\* verifyLogin: pool.connect() of verifyLoginCode rejects
verifyConnectFails(p, email, code) ==
  /\ pc[p] = "idle"
  /\ req' = [req EXCEPT ![p] = [op |-> "verifyLogin", email |-> email, code |-> code]]
  /\ fault' = [fault EXCEPT ![p] = [op |-> "verifyLoginCode", step |-> "connect"]]
  /\ Finish(p, surfaced("verifyLoginCode", RawDbError))
  /\ UNCHANGED <<now, login_attempts, accounts, accounts_seq, issued, consumed,
                 failed_verifies, clients, outbox>>
  /\ UNCHANGED <<apiVars, serviceVars>>

\* verifyLogin: "begin" or the select of verifyLoginCode fails
verifyBeginFails(p, email, code) ==
  /\ pc[p] = "idle"
  /\ req' = [req EXCEPT ![p] = [op |-> "verifyLogin", email |-> email, code |-> code]]
  /\ resp' = [resp EXCEPT ![p] = NoResp]
  /\ loc' = [loc EXCEPT ![p] = NoLoc]
  /\ pc' = [pc EXCEPT ![p] = "rollback"]
  /\ clients' = connect(clients)
  /\ fault' = [fault EXCEPT ![p] = [op |-> "verifyLoginCode", step |-> "query"]]
  /\ UNCHANGED <<now, login_attempts, accounts, accounts_seq, issued, consumed,
                 failed_verifies, outbox>>
  /\ UNCHANGED <<apiVars, serviceVars>>

\* the update or the commit of verifyLoginCode fails: nothing is published;
\* a transaction that failed at its commit still holds the row lock
verifyQueryFails(p) ==
  /\ pc[p] \in {"update", "commit"}
  /\ pc' = [pc EXCEPT ![p] = "rollback"]
  /\ loc' = [loc EXCEPT ![p].matched = IF pc[p] = "commit" THEN @ ELSE NoAttempt]
  /\ fault' = [fault EXCEPT ![p] = [op |-> "verifyLoginCode", step |-> "query"]]
  /\ UNCHANGED <<now, login_attempts, accounts, accounts_seq, req, resp, issued,
                 consumed, failed_verifies, clients, outbox>>
  /\ UNCHANGED <<apiVars, serviceVars>>

\* the catch of verifyLoginCode: the rollback succeeds
rollback(p) ==
  /\ pc[p] = "rollback"
  /\ clients' = release(clients)
  /\ Finish(p, surfaced("verifyLoginCode", GenericError("verifyLoginCode")))
  /\ UNCHANGED <<now, login_attempts, accounts, accounts_seq, req, issued,
                 consumed, failed_verifies, outbox, fault>>
  /\ UNCHANGED <<apiVars, serviceVars>>

\* the catch of verifyLoginCode: the rollback fails too, and its error leaves
\* the catch block in place of the generic one
rollbackFails(p) ==
  /\ pc[p] = "rollback"
  /\ clients' = release(clients)
  /\ fault' = [fault EXCEPT ![p] = [op |-> "verifyLoginCode", step |-> "rollback"]]
  /\ Finish(p, surfaced("verifyLoginCode", RawDbError))
  /\ UNCHANGED <<now, login_attempts, accounts, accounts_seq, req, issued,
                 consumed, failed_verifies, outbox>>
  /\ UNCHANGED <<apiVars, serviceVars>>

\* pool.connect() rejects in storeLoginAttempt, findAccountByEmail,
\* createAccount or updateLastLogin: the call is outside the try of the
\* operation, no client was acquired and none is released
connectFails(p) ==
  /\ pc[p] \in {"store", "find", "create", "touch"}
  /\ fault' = [fault EXCEPT ![p] = [op |-> StoreOp(pc[p]), step |-> "connect"]]
  /\ Finish(p, surfaced(StoreOp(pc[p]), RawDbError))
  /\ UNCHANGED <<now, login_attempts, accounts, accounts_seq, req, issued,
                 consumed, failed_verifies, clients, outbox>>
  /\ UNCHANGED <<apiVars, serviceVars>>

\* a query of canRequestLoginCode, storeLoginAttempt, findAccountByEmail or
\* createAccount fails: catch wraps the error, finally releases the client
queryFails(p) ==
  /\ pc[p] \in {"lockout", "store", "find", "create"}
  /\ fault' = [fault EXCEPT ![p] = [op |-> StoreOp(pc[p]), step |-> "query"]]
  /\ clients' = IF pc[p] = "lockout" THEN release(clients) ELSE release(connect(clients))
  /\ Finish(p, surfaced(StoreOp(pc[p]), GenericError(StoreOp(pc[p]))))
  /\ UNCHANGED <<now, login_attempts, accounts, accounts_seq, req, issued,
                 consumed, failed_verifies, outbox>>
  /\ UNCHANGED <<apiVars, serviceVars>>

\* the update of updateLastLogin fails: the error is logged and swallowed,
\* and completeLogin goes on to generateJWT
updateLastLoginQueryFails(p) ==
  /\ pc[p] = "touch"
  /\ fault' = [fault EXCEPT ![p] = [op |-> "updateLastLogin", step |-> "query"]]
  /\ Finish(p, [Response(200, "", "Login successful") EXCEPT
                  !.token = generateJWT(loc[p].accountId, req[p].email)])
  /\ issued' = [issued EXCEPT ![req[p].email] = @ + 1]
  /\ clients' = release(connect(clients))
  /\ UNCHANGED <<now, login_attempts, accounts, accounts_seq, req, consumed,
                 failed_verifies, outbox>>
  /\ UNCHANGED <<apiVars, serviceVars>>

\* emails.send throws: sendLoginCode rethrows and requestLogin answers 500
sendLoginCodeThrows(p) ==
  /\ pc[p] = "send"
  /\ fault' = [fault EXCEPT ![p] = [op |-> "sendLoginCode", step |-> "throw"]]
  /\ Finish(p, Response(500, "Failed to send login code",
                        "Failed to send login code: " \o ResendError))
  /\ UNCHANGED <<now, login_attempts, accounts, accounts_seq, req, issued,
                 consumed, failed_verifies, clients, outbox>>
  /\ UNCHANGED <<apiVars, serviceVars>>

\* emails.send resolves with { data: null, error }: sendLoginCode returns
\* success: true with that error beside it, and requestLogin answers as if
\* the code had been sent
sendLoginCodeErrorResult(p) ==
  /\ pc[p] = "send"
  /\ fault' = [fault EXCEPT ![p] = [op |-> "sendLoginCode", step |-> "error result"]]
  /\ Finish(p, Response(200, "", "Login code sent to your email"))
  /\ UNCHANGED <<now, login_attempts, accounts, accounts_seq, req, issued,
                 consumed, failed_verifies, clients, outbox>>
  /\ UNCHANGED <<apiVars, serviceVars>>

\* the failures the request slots of P may meet
Faults(P, E) ==
  \/ \E p \in P, e \in E : canRequestConnectFails(p, e)
  \/ \E p \in P, e \in E, c \in Codes : verifyConnectFails(p, e, c)
  \/ \E p \in P, e \in E, c \in Codes : verifyBeginFails(p, e, c)
  \/ \E p \in P : verifyQueryFails(p)
  \/ \E p \in P : rollback(p)
  \/ \E p \in P : rollbackFails(p)
  \/ \E p \in P : connectFails(p)
  \/ \E p \in P : queryFails(p)
  \/ \E p \in P : updateLastLoginQueryFails(p)
  \/ \E p \in P : sendLoginCodeThrows(p)
  \/ \E p \in P : sendLoginCodeErrorResult(p)

\* sequential use in which any call to the database or to the email provider
\* may fail
NextFaults ==
  \/ Tick(MaxTimeConc)
  \/ Handlers({1}, {SeedEmail}, MaxAttempts)
  \/ verifyCommit(1)
  \/ Faults({1}, {SeedEmail})
SpecFaults == Init /\ [][NextFaults]_vars

(* ---- jsonwebtoken and the token-protected routes ---- *)
\* values of the Authorization header
BasicHeader == [scheme |-> "Basic", wellformed |-> FALSE, token |-> NoToken]
BearerGarbage == [scheme |-> "Bearer", wellformed |-> FALSE, token |-> NoToken]
Bearer(t) == [scheme |-> "Bearer", wellformed |-> TRUE, token |-> t]

\* jwt.verify(token, this.jwtSecret) on the value of a Bearer header: the
\* name of the error it throws, "" when it returns the payload.  It decodes
\* the token, checks the signature, then nbf, then exp.
jwtVerify(h) ==
  IF ~h.wellformed THEN "JsonWebTokenError"
  ELSE IF h.token.key # jwtSecret THEN "JsonWebTokenError"
  ELSE IF h.token.nbf > date_now THEN "NotBeforeError"
  ELSE IF date_now >= h.token.exp THEN "TokenExpiredError"
  ELSE ""

\* a catch block with one message for every error
verifyJWTOneMessage(h) ==
  IF jwtVerify(h) = "" THEN "" ELSE "Invalid token"

\* verifyJWT(token): the message of the error it throws, "" when it returns
verifyJWT(h) ==
  IF jwtVerify(h) = "" THEN ""
  ELSE IF jwtVerify(h) = "TokenExpiredError" THEN "Token expired"
  ELSE IF jwtVerify(h) = "JsonWebTokenError" THEN "Invalid token"
  ELSE "Token validation failed"

\* the routes of routes/auth.js and routes/prompts.js that the README lists
\* with "Auth Required: Yes"
AuthRequired ==
  {"GET /auth/verify", "POST /auth/logout", "GET /prompts", "GET /prompts/stats",
   "POST /prompts/validate"}

\* a route that puts optionalAuthentication in front of its handler (the
\* middleware is exported; no route of the repository registers it)
OptionalRoute == "optionalAuthentication(req, res, next)"

\* the middleware chain router.get / router.post registers for each of them
Chain(endpoint) ==
  CASE endpoint = "GET /auth/verify" -> <<"authenticateJWT", "verifyToken">>
    [] endpoint = "POST /auth/logout" -> <<"authenticateJWT", "logout">>
    [] endpoint = "GET /prompts" ->
         <<"rateLimitPresets.prompts", "validateLanguage", "getPrompts">>
    [] endpoint = "GET /prompts/stats" ->
         <<"rateLimitPresets.api", "authenticateJWT", "getPromptStatistics">>
    [] endpoint = "POST /prompts/validate" ->
         <<"rateLimitPresets.api", "authenticateJWT", "validatePrompts">>
    [] endpoint = OptionalRoute -> <<"optionalAuthentication", "next">>

RateLimiters == {"rateLimitPresets.prompts", "rateLimitPresets.api"}
Validators == {"validateLanguage"}
Controllers ==
  {"verifyToken", "logout", "getPrompts", "getPromptStatistics", "validatePrompts",
   "next"}

\* the function of its chain the request in flight runs next
Current == IF api.step = 0 THEN "" ELSE Chain(api.endpoint)[api.step]

\* tokens a client can present: those verifyLogin has returned, one signed
\* with another secret, one signed with the server secret whose nbf is day 1
IssuedTokens == {resp[p].token : p \in {q \in Procs : resp[q].token # NoToken}}
ForgedToken ==
  [accountId |-> 1, email |-> SeedEmail, iat |-> 0, nbf |-> 0,
   exp |-> jwtExpiresInDays, key |-> "not the secret"]
PostDatedToken ==
  [accountId |-> 1, email |-> SeedEmail, iat |-> 0, nbf |-> 1,
   exp |-> jwtExpiresInDays, key |-> jwtSecret]
Headers ==
  {NoHeader, BasicHeader, BearerGarbage}
    \cup {Bearer(t) : t \in IssuedTokens \cup {ForgedToken, PostDatedToken}}

\* Date.now() moves on by a day
DayTick(bound) ==
  /\ date_now < bound
  /\ date_now' = date_now + 1
  /\ UNCHANGED <<loginVars, api, serviceVars>>

\* a request for one of the routes arrives
receive(endpoint, h) ==
  /\ api.step = 0
  /\ api' = [NoApi EXCEPT !.endpoint = endpoint, !.header = h, !.step = 1]
  /\ UNCHANGED <<loginVars, date_now, serviceVars>>

\* a rate limiter or validateLanguage calls next()
middlewareNext ==
  /\ Current \in RateLimiters \cup Validators
  /\ api' = [api EXCEPT !.step = @ + 1]
  /\ UNCHANGED <<loginVars, date_now, serviceVars>>

\* a rate limiter throws TooManyRequestsError, or validateLanguage answers 400
middlewareRejects ==
  /\ Current \in RateLimiters \cup Validators
  /\ api' = IF Current \in RateLimiters
              THEN [api EXCEPT !.step = 0,
                      !.status = errorHandler([name |-> "TooManyRequestsError",
                         message |-> "Too many requests", statusCode |-> 429]).status,
                      !.error = errorHandler([name |-> "TooManyRequestsError",
                         message |-> "Too many requests", statusCode |-> 429]).error]
              ELSE [api EXCEPT !.step = 0, !.status = 400, !.error = "Validation failed"]
  /\ UNCHANGED <<loginVars, date_now, serviceVars>>

\* the body of authenticateJWT(req, res, next): the request after it has
\* called next() or sent its response
authenticateJWTBody ==
  IF api.header.scheme # "Bearer"
    THEN [api EXCEPT !.step = 0, !.status = 401, !.error = "No token provided"]
  ELSE IF verifyJWT(api.header) = ""
    THEN [api EXCEPT !.step = @ + 1,
            !.user = [accountId |-> api.header.token.accountId,
                      email |-> api.header.token.email]]
  ELSE IF verifyJWT(api.header) = "Token expired"
    THEN [api EXCEPT !.step = 0, !.status = 401, !.error = "Token expired"]
  ELSE IF verifyJWT(api.header) = "Invalid token"
    THEN [api EXCEPT !.step = 0, !.status = 401, !.error = "Invalid token"]
  ELSE [api EXCEPT !.step = 0, !.status = 500, !.error = "Token validation failed"]

\* authenticateJWT(req, res, next)
authenticateJWT ==
  /\ Current = "authenticateJWT"
  /\ api' = authenticateJWTBody
  /\ UNCHANGED <<loginVars, date_now, serviceVars>>

\* the controller at the end of the chain runs; verifyToken answers with the
\* account of req.user
runController ==
  /\ Current \in Controllers
  /\ api' = [api EXCEPT !.step = 0, !.status = 200, !.handled = TRUE,
               !.account = IF Current = "verifyToken" THEN api.user ELSE NoUser]
  /\ UNCHANGED <<loginVars, date_now, serviceVars>>

\* one client logs in and uses the routes, while the days pass
NextApi ==
  \/ DayTick(MaxDay)
  \/ Handlers({1}, {SeedEmail}, 1)
  \/ verifyCommit(1)
  \/ \E endpoint \in AuthRequired, h \in Headers : receive(endpoint, h)
  \/ middlewareNext
  \/ middlewareRejects
  \/ authenticateJWT
  \/ runController
SpecApi == Init /\ [][NextApi]_vars

\* a middleware that lets every request without a verified token through
optionalAuthenticationNeverRejects ==
  /\ Current = "optionalAuthentication"
  /\ api' = IF api.header.scheme = "Bearer" /\ verifyJWT(api.header) = ""
              THEN authenticateJWTBody
              ELSE [api EXCEPT !.step = @ + 1, !.user = NoUser]
  /\ UNCHANGED <<loginVars, date_now, serviceVars>>

\* optionalAuthentication(req, res, next)
optionalAuthentication ==
  /\ Current = "optionalAuthentication"
  /\ api' = IF api.header.scheme # "Bearer"
              THEN [api EXCEPT !.step = @ + 1, !.user = NoUser]
              ELSE authenticateJWTBody
  /\ UNCHANGED <<loginVars, date_now, serviceVars>>

\* one client logs in, then calls a route behind authenticateJWT and a route
\* behind optionalAuthentication, while the days pass
NextAuth ==
  \/ DayTick(MaxDay)
  \/ Handlers({1}, {SeedEmail}, 1)
  \/ verifyCommit(1)
  \/ \E endpoint \in {"GET /auth/verify", OptionalRoute}, h \in Headers :
       receive(endpoint, h)
  \/ authenticateJWT
  \/ optionalAuthentication
  \/ runController
SpecAuth == Init /\ [][NextAuth]_vars

(* ---- rate limiter (src/src/middlewares/rateLimit.js) ---- *)
\* windowMs and max of the presets; windowMs in minutes
rateLimitPresets ==
  [auth |-> [windowMs |-> 5, max |-> 50],
   api |-> [windowMs |-> 15, max |-> 100],
   prompts |-> [windowMs |-> 1, max |-> 30]]

\* limits and windows (in minutes) of the direct isAllowed calls
Limits == {0, 1, 2}
Windows == {1, 2}

\* a first request, or the first one after the window has expired
firstOfWindow(limit, windowMs) ==
  [record |-> [count |-> 1, resetTime |-> rl_now + windowMs],
   result |-> [allowed |-> TRUE, count |-> 1, resetTime |-> rl_now + windowMs,
               remaining |-> limit - 1, retryAfter |-> 0]]

\* isAllowed(key, limit, windowMs) on the map: the record it leaves under key
\* and the result it returns
isAllowed(map, key, limit, windowMs) ==
  IF map[key] = NoRecord
    THEN firstOfWindow(limit, windowMs)
  ELSE IF rl_now > map[key].resetTime
    THEN firstOfWindow(limit, windowMs)
  ELSE IF map[key].count + 1 > limit
    THEN [record |-> [map[key] EXCEPT !.count = @ + 1],
          result |-> [allowed |-> FALSE, count |-> map[key].count + 1,
                      resetTime |-> map[key].resetTime, remaining |-> 0,
                      \* Math.ceil((record.resetTime - now) / 1000), in seconds
                      retryAfter |-> (map[key].resetTime - rl_now) * 60]]
  ELSE [record |-> [map[key] EXCEPT !.count = @ + 1],
        result |-> [allowed |-> TRUE, count |-> map[key].count + 1,
                    resetTime |-> map[key].resetTime,
                    remaining |-> limit - (map[key].count + 1), retryAfter |-> 0]]

\* the window of the key after a call at rl_now, and the calls allowed in it
windowAfter(key, windowMs, allowed) ==
  IF rl_window[key] = NoWindow \/ rl_now > rl_window[key].resetTime
    THEN [resetTime |-> rl_now + windowMs, allowed |-> IF allowed THEN 1 ELSE 0]
    ELSE [rl_window[key] EXCEPT !.allowed = IF allowed THEN @ + 1 ELSE @]

\* Date.now() moves on by a minute
TickRl(bound) ==
  /\ rl_now < bound
  /\ rl_now' = rl_now + 1
  /\ UNCHANGED <<requests, rl_last, rl_window, rl_kept>>
  /\ UNCHANGED <<loginVars, apiVars, timing, backup, server, migration>>

\* rateLimiter.isAllowed(key, limit, windowMs), its caller going on with
\* outcome; a key is called at most cap times in a window
call(key, limit, windowMs, cap, outcomes) ==
  /\ \/ requests[key] = NoRecord
     \/ rl_now > requests[key].resetTime
     \/ requests[key].count < cap
  /\ requests' = [requests EXCEPT ![key] = isAllowed(requests, key, limit, windowMs).record]
  /\ rl_kept' = [rl_kept EXCEPT ![key] = isAllowed(rl_kept, key, limit, windowMs).record]
  /\ rl_last' = [key |-> key, limit |-> limit, windowMs |-> windowMs,
                 result |-> isAllowed(requests, key, limit, windowMs).result,
                 kept |-> isAllowed(rl_kept, key, limit, windowMs).result,
                 cleaned |-> requests[key] # rl_kept[key],
                 outcome |-> outcomes[isAllowed(requests, key, limit, windowMs).result.allowed]]
  /\ rl_window' = [rl_window EXCEPT ![key] =
                     windowAfter(key, windowMs,
                                 isAllowed(requests, key, limit, windowMs).result.allowed)]
  /\ UNCHANGED rl_now
  /\ UNCHANGED <<loginVars, apiVars, timing, backup, server, migration>>

\* a cleanup that also removes the records whose window ends now
cleanupAtResetTime ==
  /\ requests' = [k \in Keys |->
                    IF requests[k] # NoRecord /\ rl_now >= requests[k].resetTime
                      THEN NoRecord ELSE requests[k]]
  /\ UNCHANGED <<rl_now, rl_last, rl_window, rl_kept>>
  /\ UNCHANGED <<loginVars, apiVars, timing, backup, server, migration>>

\* cleanup(), run by the interval timer
cleanup ==
  /\ requests' = [k \in Keys |->
                    IF requests[k] # NoRecord /\ rl_now > requests[k].resetTime
                      THEN NoRecord ELSE requests[k]]
  /\ UNCHANGED <<rl_now, rl_last, rl_window, rl_kept>>
  /\ UNCHANGED <<loginVars, apiVars, timing, backup, server, migration>>

\* the middleware createRateLimit(options) returns, for a request from ip:
\* it throws TooManyRequestsError or calls next(); the client stops calling
\* in a window once the auth preset refuses it
createRateLimit(options, ip) ==
  call(ip, options.max, options.windowMs, rateLimitPresets.auth.max + 1,
       [a \in BOOLEAN |-> IF a THEN "next" ELSE "TooManyRequestsError"])

\* clients call isAllowed with small limits and windows, the timer runs cleanup
NextRate ==
  \/ TickRl(MaxClock)
  \/ \E key \in Keys, limit \in Limits, windowMs \in Windows :
       call(key, limit, windowMs, MaxCount, [a \in BOOLEAN |-> "returned"])
  \/ cleanup
SpecRate == Init /\ [][NextRate]_vars

\* one client goes through the routes of the three presets
ClientIp == "10.0.0.1"
NextPresets ==
  \/ TickRl(MaxPresetClock)
  \/ \E preset \in DOMAIN rateLimitPresets : createRateLimit(rateLimitPresets[preset], ClientIp)
  \/ cleanup
SpecPresets == Init /\ [][NextPresets]_vars


(* ---- the cost of comparing the code (verifyLoginCode, two variants) ---- *)
\* the supplied code and the codes the candidate attempts may hold: the seed
\* code and codes that differ from it in the first or in the last byte only
TimingCodes == {SeedCode, <<7, 2, 3, 4, 5, 6>>, <<1, 2, 3, 4, 5, 7>>}
\* the unused, unexpired attempts of the email, newest first
CandidateRows == UNION {[1..n -> TimingCodes] : n \in 1..MaxCandidates}

\* bytes an ordinary equality test reads: it stops at the first difference
equalityBytes(a, b) ==
  IF a = b THEN Len(a)
  ELSE CHOOSE i \in 1..Len(a) : a[i] # b[i] /\ \A j \in 1..(i - 1) : a[j] = b[j]
\* bytes crypto.timingSafeEqual reads: all of them
timingSafeEqualBytes(a, b) == Len(a)

\* the loop of verifyLoginCode (emailService.js): the index of the attempt
\* it matches, 0 for none, and the bytes it has compared when it breaks
RECURSIVE scan(_, _, _)
scan(rows, code, i) ==
  IF i > Len(rows) THEN [matched |-> 0, bytes |-> 0]
  ELSE IF timingSafeEqual(rows[i], code)
    THEN [matched |-> i, bytes |-> timingSafeEqualBytes(rows[i], code)]
  ELSE [scan(rows, code, i + 1) EXCEPT
          !.bytes = @ + timingSafeEqualBytes(rows[i], code)]

\* the select of verifyLoginCode (authService.js), "... and code = $2 ...
\* order by created_at desc limit 1": the index of the row it returns, 0 for
\* none, and the bytes the database compares to evaluate code = $2 on the rows
RECURSIVE select(_, _, _)
select(rows, code, i) ==
  IF i > Len(rows) THEN [matched |-> 0, bytes |-> 0]
  ELSE [matched |-> IF rows[i] = code THEN i ELSE select(rows, code, i + 1).matched,
        bytes |-> equalityBytes(rows[i], code) + select(rows, code, i + 1).bytes]

\* verifyLoginCode(email, code) of emailService.js, run on two databases
\* that hold the same number of candidate attempts with other codes in them
verifyLoginCodeScan(code, rows1, rows2) ==
  /\ Len(rows1) = Len(rows2)
  /\ timing' = [variant |-> "timingSafeEqual", code |-> code, rows |-> <<rows1, rows2>>,
                matched |-> <<scan(rows1, code, 1).matched, scan(rows2, code, 1).matched>>,
                time |-> <<scan(rows1, code, 1).bytes, scan(rows2, code, 1).bytes>>]
  /\ UNCHANGED <<loginVars, apiVars, rlVars, backup, server, migration>>

\* verifyLoginCode(email, code) of authService.js, run on the same two
verifyLoginCodeSelect(code, rows1, rows2) ==
  /\ Len(rows1) = Len(rows2)
  /\ timing' = [variant |-> "code = $2", code |-> code, rows |-> <<rows1, rows2>>,
                matched |-> <<select(rows1, code, 1).matched, select(rows2, code, 1).matched>>,
                time |-> <<select(rows1, code, 1).bytes, select(rows2, code, 1).bytes>>]
  /\ UNCHANGED <<loginVars, apiVars, rlVars, backup, server, migration>>

\* either AuthService of the repository verifies a code
NextTiming ==
  \/ \E code \in TimingCodes, rows1 \in CandidateRows, rows2 \in CandidateRows :
       verifyLoginCodeScan(code, rows1, rows2)
  \/ \E code \in TimingCodes, rows1 \in CandidateRows, rows2 \in CandidateRows :
       verifyLoginCodeSelect(code, rows1, rows2)
SpecTiming == Init /\ [][NextTiming]_vars


(* ---- the backup job (src/unnamed/part_007, backup-job/index.js) ---- *)
\* what makeRequest gives back: a response with its status code, or an
\* error (connection refused, timeout after config.timeout)
resolved(statusCode) == [threw |-> FALSE, statusCode |-> statusCode]
rejected == [threw |-> TRUE, statusCode |-> 0]
RequestOutcomes == {resolved(200), resolved(429), resolved(500), rejected}

RECURSIVE pow2(_)
pow2(n) == IF n = 0 THEN 1 ELSE 2 * pow2(n - 1)

\* calculateBackoffDelay(attempt, baseDelay), in seconds; jitter is
\* Math.random() * 0.1 * exponentialDelay
calculateBackoffDelay(attempt, baseDelay, jitter) == baseDelay * pow2(attempt) + jitter

\* a loop that retries once more than configured
retriesLeftOneMore(attempt) == attempt <= backup.maxRetries

\* attempt < config.maxRetries
retriesLeft(attempt) == attempt < backup.maxRetries

\* process.exit(code)
exitBackup(code, outcome) ==
  backup' = [backup EXCEPT !.pc = "exited", !.exit = code,
                           !.requests = Append(@, outcome)]

\* main(): validateConfig(), then sendBackupWithRetry() enters its loop
main(maxRetries, configValid) ==
  /\ backup.pc = "off"
  /\ backup' = IF configValid
                 THEN [NoBackup EXCEPT !.pc = "request", !.maxRetries = maxRetries]
                 ELSE [NoBackup EXCEPT !.pc = "exited", !.maxRetries = maxRetries,
                                       !.exit = 1]
  /\ UNCHANGED <<loginVars, apiVars, rlVars, timing, server, migration>>

\* one pass of the loop: makeRequest resolves or rejects, and the job
\* returns, exits or starts to sleep
attemptBackup(outcome, jitter) ==
  /\ backup.pc = "request"
  /\ IF ~outcome.threw /\ outcome.statusCode = 200
       THEN exitBackup(0, outcome)
     ELSE IF retriesLeft(backup.attempt)
       THEN backup' = [backup EXCEPT !.pc = "sleep",
                         !.requests = Append(@, outcome),
                         !.sleeps = Append(@, calculateBackoffDelay(backup.attempt,
                                                 baseDelaySeconds, jitter))]
     ELSE IF ~outcome.threw /\ outcome.statusCode = 429
       THEN exitBackup(0, outcome)
     ELSE exitBackup(1, outcome)
  /\ UNCHANGED <<loginVars, apiVars, rlVars, timing, server, migration>>

\* the sleep ends: attempt++
wakeUp ==
  /\ backup.pc = "sleep"
  /\ backup' = [backup EXCEPT !.pc = "request", !.attempt = @ + 1]
  /\ UNCHANGED <<loginVars, apiVars, rlVars, timing, server, migration>>

NextBackup ==
  \/ \E maxRetries \in 0..MaxRetries, configValid \in BOOLEAN : main(maxRetries, configValid)
  \/ \E outcome \in RequestOutcomes,
        \* Math.random() * 0.1 * exponentialDelay: none, or almost a tenth
        jitter \in {0, (baseDelaySeconds * pow2(backup.attempt)) \div 10 - 1} :
       attemptBackup(outcome, jitter)
  \/ wakeUp
\* every request is answered or times out, every sleep ends
SpecBackupFair == Init /\ [][NextBackup]_vars /\ WF_vars(NextBackup)


(* ---- graceful shutdown of the server (src/unnamed/part_003, server.js) ---- *)
\* the earliest deadline of the armed force-shutdown timers
NextDeadline ==
  CHOOSE d \in {server.timers[i] : i \in DOMAIN server.timers} :
    \A i \in DOMAIN server.timers : d <= server.timers[i]

\* a server whose close callbacks run as soon as close() is called
closeEventEmittedAtOnce == TRUE

\* the HTTP server has emitted 'close': it has stopped listening and its
\* connections have ended
closeEventEmitted == server.http = "closed"

\* SIGTERM, SIGINT, an uncaught exception or an unhandled rejection:
\* gracefulShutdown(signal) calls server.close(callback) and arms its timer
gracefulShutdown ==
  /\ server.exit = NoExit
  /\ server.shutdowns < MaxSignals
  /\ server' = [server EXCEPT
                  !.shutdowns = @ + 1,
                  !.http = IF @ = "listening" THEN "closing" ELSE @,
                  !.callbacks = @ + 1,
                  !.timers = Append(@, server.elapsed + forceShutdownSeconds)]
  /\ UNCHANGED <<loginVars, apiVars, rlVars, timing, backup, migration>>

\* the last open connection ends: the server finishes closing
serverCloses ==
  /\ server.exit = NoExit
  /\ server.http = "closing"
  /\ server' = [server EXCEPT !.http = "closed"]
  /\ UNCHANGED <<loginVars, apiVars, rlVars, timing, backup, migration>>

\* a callback given to server.close runs up to its await:
\* databaseService.close() calls pool.end(), which rejects when the pool is
\* already ending, and then the callback exits with code 1
closeCallback ==
  /\ server.exit = NoExit
  /\ server.callbacks > 0
  /\ closeEventEmitted
  /\ server' = IF server.pool = "open"
                 THEN [server EXCEPT !.callbacks = @ - 1, !.pool = "ending"]
                 ELSE [server EXCEPT !.callbacks = @ - 1, !.exit = 1]
  /\ UNCHANGED <<loginVars, apiVars, rlVars, timing, backup, migration>>

\* pool.end() settles and the callback that awaits it calls process.exit
poolEnd(ok) ==
  /\ server.exit = NoExit
  /\ server.pool = "ending"
  /\ server' = IF ok THEN [server EXCEPT !.pool = "ended", !.exit = 0]
                     ELSE [server EXCEPT !.pool = "failed", !.exit = 1]
  /\ UNCHANGED <<loginVars, apiVars, rlVars, timing, backup, migration>>

\* a second passes since the first shutdown call; no timer is overdue
second ==
  /\ server.exit = NoExit
  /\ server.shutdowns > 0
  /\ server.elapsed < NextDeadline
  /\ server' = [server EXCEPT !.elapsed = @ + 1]
  /\ UNCHANGED <<loginVars, apiVars, rlVars, timing, backup, migration>>

\* a force-shutdown timer fires: process.exit(1)
forceShutdown ==
  /\ server.exit = NoExit
  /\ server.shutdowns > 0
  /\ server.elapsed >= NextDeadline
  /\ server' = [server EXCEPT !.exit = 1]
  /\ UNCHANGED <<loginVars, apiVars, rlVars, timing, backup, migration>>

NextServer ==
  \/ gracefulShutdown
  \/ serverCloses
  \/ closeCallback
  \/ \E ok \in BOOLEAN : poolEnd(ok)
  \/ second
  \/ forceShutdown
\* time passes and timers fire; nothing makes the server finish closing or
\* the pool finish ending
SpecServerFair ==
  Init /\ [][NextServer]_vars /\ WF_vars(second) /\ WF_vars(forceShutdown)


(* ---- migrations (MigrationService, DatabaseService.initialize) ---- *)
\* file.endsWith(".sql")
endsWithSql(file) == file # "README.md"
rank(file) == CHOOSE i \in DOMAIN SortedFiles : SortedFiles[i] = file

\* files.sort(): the files of the set in ascending order of their names
RECURSIVE sort(_)
sort(files) ==
  IF files = {} THEN <<>>
  ELSE LET first == CHOOSE f \in files : \A g \in files : rank(f) <= rank(g)
       IN <<first>> \o sort(files \ {first})

\* readdirSync(...).filter(endsWith(".sql")).sort().filter(not applied)
pendingMigrations(folder, appliedMigrations) ==
  sort({f \in folder : endsWithSql(f) /\ f \notin appliedMigrations})

\* the migration runMigration is called for next
NextPending == migration.pending[Len(migration.executed) + 1]

\* "commit": the statements of the transaction take effect together
commitTx(m) ==
  [m EXCEPT !.table = IF m.tx.recorded THEN @ \cup {m.tx.file} ELSE @,
            !.applied[m.tx.file] = IF m.tx.sql THEN @ + 1 ELSE @,
            !.tx = NoTx]

\* a migration whose SQL runs outside the transaction: it stays applied
\* when the transaction is rolled back
rollbackKeepsSql(m) ==
  IF m.tx.sql
    THEN [m EXCEPT !.applied[m.tx.file] = @ + 1, !.tx = NoTx, !.pc = "failed"]
    ELSE [m EXCEPT !.tx = NoTx, !.pc = "failed"]

\* catch: "rollback", throw; initialize() rethrows
rollbackTx(m) == [m EXCEPT !.tx = NoTx, !.pc = "failed"]

\* the process starts on the database as it is: databaseService.initialize()
initialize(folder) ==
  /\ migration.pc \in {"off", "initialized", "failed"}
  /\ migration.starts < MaxStarts
  /\ migration' = [migration EXCEPT !.pc = "connect", !.starts = @ + 1,
                     !.isInitialized = FALSE, !.folder = folder,
                     !.pending = <<>>, !.executed = <<>>]
  /\ UNCHANGED <<loginVars, apiVars, rlVars, timing, backup, server>>

\* the connection test, then ensureMigrationsTable()
ensureMigrationsTable(ok) ==
  /\ migration.pc = "connect"
  /\ migration' = [migration EXCEPT !.pc = IF ok THEN "pending" ELSE "failed"]
  /\ UNCHANGED <<loginVars, apiVars, rlVars, timing, backup, server>>

\* getPendingMigrations(); with nothing pending runMigrations returns
getPendingMigrations(ok) ==
  /\ migration.pc = "pending"
  /\ migration' =
       IF ~ok THEN [migration EXCEPT !.pc = "failed"]
       ELSE IF pendingMigrations(migration.folder, migration.table) = <<>>
         THEN [migration EXCEPT !.pc = "initialized", !.isInitialized = TRUE]
       ELSE [migration EXCEPT !.pc = "begin",
               !.pending = pendingMigrations(migration.folder, migration.table)]
  /\ UNCHANGED <<loginVars, apiVars, rlVars, timing, backup, server>>

\* runMigration(filename): read the file, connect, "begin"
begin(ok) ==
  /\ migration.pc = "begin"
  /\ migration' =
       IF ok THEN [migration EXCEPT !.pc = "sql",
                     !.executed = Append(@, NextPending),
                     !.tx = [NoTx EXCEPT !.file = NextPending]]
       ELSE rollbackTx([migration EXCEPT !.executed = Append(@, NextPending)])
  /\ UNCHANGED <<loginVars, apiVars, rlVars, timing, backup, server>>

\* client.query(sql)
runSql(ok) ==
  /\ migration.pc = "sql"
  /\ migration' = IF ok THEN [migration EXCEPT !.pc = "insert", !.tx.sql = TRUE]
                        ELSE rollbackTx(migration)
  /\ UNCHANGED <<loginVars, apiVars, rlVars, timing, backup, server>>

\* insert into migrations (filename)
insertFilename(ok) ==
  /\ migration.pc = "insert"
  /\ migration' = IF ok THEN [migration EXCEPT !.pc = "commit", !.tx.recorded = TRUE]
                        ELSE rollbackTx(migration)
  /\ UNCHANGED <<loginVars, apiVars, rlVars, timing, backup, server>>

\* "commit", then the next migration of the loop, or the end of runMigrations
commit(ok) ==
  /\ migration.pc = "commit"
  /\ migration' =
       IF ~ok THEN rollbackTx(migration)
       ELSE IF Len(migration.executed) = Len(migration.pending)
         THEN [commitTx(migration) EXCEPT !.pc = "initialized", !.isInitialized = TRUE]
       ELSE [commitTx(migration) EXCEPT !.pc = "begin"]
  /\ UNCHANGED <<loginVars, apiVars, rlVars, timing, backup, server>>

NextMigrations ==
  \/ \E folder \in SUBSET Files : initialize(folder)
  \/ \E ok \in BOOLEAN : ensureMigrationsTable(ok)
  \/ \E ok \in BOOLEAN : getPendingMigrations(ok)
  \/ \E ok \in BOOLEAN : begin(ok)
  \/ \E ok \in BOOLEAN : runSql(ok)
  \/ \E ok \in BOOLEAN : insertFilename(ok)
  \/ \E ok \in BOOLEAN : commit(ok)
SpecMigrations == Init /\ [][NextMigrations]_vars


(* ---- vocabulary of the properties ---- *)
\* slot p has answered its request
Done(p) == pc[p] = "idle" /\ req[p].op # "none"

IsSuccess(r) == r.status = 200
IsInvalidOrExpiredCode(r) == r.status = 401 /\ r.error = "Invalid or expired login code"
IsRateLimited(r) == r.status = 429 /\ r.error = "Rate limit exceeded"
\* what the caller sees today when canRequestLoginCode throws its lockout error
IsLockoutRefusal(r) == r.status = 500 /\ r.error = "INTERNAL_ERROR"
\* a lockout outcome of its own, with a 423/429-style status
IsAccountLocked(r) ==
  /\ r.status \in {423, 429}
  /\ r.error \notin {"INTERNAL_ERROR", "Rate limit exceeded"}

\* minutes since attempt i was created
AgeOf(i) == now - login_attempts[i].created_at
AttemptsOf(email, code) ==
  {i \in DOMAIN login_attempts :
     login_attempts[i].email = email /\ login_attempts[i].code = code}
UsedOf(email, code) == {i \in AttemptsOf(email, code) : login_attempts[i].is_used}
UnusedOf(email, code) == {i \in AttemptsOf(email, code) : ~login_attempts[i].is_used}
UsableOf(email, code) ==
  {i \in UnusedOf(email, code) : AgeOf(i) < loginCodeExpiryMinutes}
UnusedInLastHour(email) ==
  Cardinality({i \in DOMAIN login_attempts :
     /\ login_attempts[i].email = email
     /\ ~login_attempts[i].is_used
     /\ AgeOf(i) < LockoutWindowMinutes})

\* steps of slot p
StartsVerify(p) == pc[p] = "idle" /\ pc'[p] # "idle" /\ req'[p].op = "verifyLogin"
HeadsFor401(p) == pc'[p] = "commit" /\ loc'[p].matched = NoAttempt
Answers401(p) == pc[p] = "commit" /\ loc[p].matched = NoAttempt /\ pc'[p] = "idle"
AnswersRequest(p) == pc[p] = "lockout" /\ pc'[p] # "lockout"
CompletesLogin(p) == pc[p] \in {"find", "create", "touch"} /\ pc'[p] = "idle"

(* ---- C1 ---- *)
\* C1: of the verifyLogin calls that race on one valid attempt exactly one
\* succeeds: two answered calls for the same email and code that both went
\* past the code check have consumed two different attempts.
C1_ExactlyOneSucceeds ==
  \A p \in Procs : \A q \in Procs \ {p} :
    ( /\ Done(p) /\ Done(q)
      /\ req[p].op = "verifyLogin" /\ req[q] = req[p]
      /\ ~IsInvalidOrExpiredCode(resp[p]) /\ ~IsInvalidOrExpiredCode(resp[q]) )
    => \A i \in AttemptsOf(req[p].email, req[p].code) : consumed[i] <= 1

(* ---- C2 ---- *)
\* C2 as stated: a used attempt stays used, and once an attempt of (email,
\* code) is used every later verifyLogin(email, code) is answered
\* InvalidOrExpiredCode.
C2_SucceedsExactlyOnce ==
  [][ /\ \A i \in DOMAIN login_attempts :
           login_attempts[i].is_used => login_attempts'[i].is_used
      /\ \A p \in Procs :
           /\ (StartsVerify(p) /\ UsedOf(req'[p].email, req'[p].code) # {})
                => HeadsFor401(p)
           /\ Answers401(p) => IsInvalidOrExpiredCode(resp'[p]) ]_vars

\* C2 amended: a used attempt stays used; in sequential use the commit of a
\* successful verifyLogin turns an unused attempt of that email and code into
\* a used one (no attempt is consumed twice); and a later verifyLogin with the
\* same email and code is answered InvalidOrExpiredCode unless another unused,
\* unexpired attempt of the email carries the same code.
C2_AttemptSingleUse ==
  [][ /\ \A i \in DOMAIN login_attempts :
           login_attempts[i].is_used => login_attempts'[i].is_used
      /\ \A p \in Procs :
           /\ (pc[p] = "commit" /\ pc'[p] = "find")
                => /\ loc[p].matched \in UnusedOf(req[p].email, req[p].code)
                   /\ login_attempts'[loc[p].matched].is_used
           /\ ( /\ StartsVerify(p)
                /\ UsedOf(req'[p].email, req'[p].code) # {}
                /\ UsableOf(req'[p].email, req'[p].code) = {} )
                => HeadsFor401(p)
           /\ Answers401(p) => IsInvalidOrExpiredCode(resp'[p]) ]_vars

\* a replay of a consumed, still unexpired code has been refused
C2_Witness ==
  \E p \in Procs :
    /\ Done(p) /\ req[p].op = "verifyLogin"
    /\ IsInvalidOrExpiredCode(resp[p])
    /\ issued[req[p].email] >= 1
    /\ UsableOf(req[p].email, req[p].code) = {}
    /\ \E i \in UsedOf(req[p].email, req[p].code) : AgeOf(i) < loginCodeExpiryMinutes

(* ---- C3 ---- *)
\* C3: tokens are issued only by verifyLogin calls that consumed an attempt,
\* so the tokens issued for an email never outnumber its used attempts.
C3_TokensWithinUsedAttempts ==
  \A e \in Emails :
    issued[e] <= Cardinality({i \in DOMAIN login_attempts :
                    login_attempts[i].email = e /\ login_attempts[i].is_used})

(* ---- C4 ---- *)
\* the request of slot p is answered while an attempt of its email is less
\* than rateLimitMinutes old
SecondWithinWindow(p) ==
  /\ AnswersRequest(p)
  /\ \E i \in DOMAIN login_attempts :
       login_attempts[i].email = req[p].email /\ AgeOf(i) < rateLimitMinutes

C5_ExpiredCodeRefused ==
  [][ \A p \in Procs :
        /\ ( /\ StartsVerify(p)
             /\ UnusedOf(req'[p].email, req'[p].code) # {}
             /\ \A i \in UnusedOf(req'[p].email, req'[p].code) :
                  AgeOf(i) > loginCodeExpiryMinutes )
             => HeadsFor401(p)
        /\ Answers401(p) =>
             /\ IsInvalidOrExpiredCode(resp'[p])
             /\ login_attempts' = login_attempts ]_vars

\* an expired code has been refused and its attempt is still unused
C5_Witness ==
  \E p \in Procs :
    /\ Done(p) /\ req[p].op = "verifyLogin"
    /\ IsInvalidOrExpiredCode(resp[p])
    /\ UnusedOf(req[p].email, req[p].code) # {}
    /\ \A i \in UnusedOf(req[p].email, req[p].code) : AgeOf(i) > loginCodeExpiryMinutes

(* ---- C6 ---- *)
\* C6: once LockoutThreshold verifyLogin calls for an email have failed within
\* the hour, the next requestLogin for it is refused as locked.
C6_FailedVerifiesLock ==
  [][ \A p \in Procs :
        ( /\ AnswersRequest(p)
          /\ failed_verifies[req[p].email] >= LockoutThreshold
          /\ now - (SeedRows - 1) < LockoutWindowMinutes )
        => /\ pc'[p] = "idle"
           /\ IsAccountLocked(resp'[p]) \/ IsLockoutRefusal(resp'[p]) ]_vars

(* ---- C7 ---- *)
\* C7: a requestLogin refused because the email is locked out is answered
\* with an AccountLocked outcome of its own and a 423/429-style status.
C7_LockoutIsDistinct ==
  [][ \A p \in Procs :
        ( /\ AnswersRequest(p)
          /\ UnusedInLastHour(req[p].email) >= LockoutThreshold
          /\ pc'[p] = "idle" )
        => IsAccountLocked(resp'[p]) ]_vars

(* ---- C8 ---- *)
\* C8: no two rows of accounts have the same email.
C8_OneAccountPerEmail ==
  \A k \in DOMAIN accounts, l \in DOMAIN accounts :
    accounts[k].email = accounts[l].email => k = l

\* two first-time logins of one email raced, and the later insert was rejected
C8_Witness ==
  \E p \in Procs :
    /\ Done(p) /\ req[p].op = "verifyLogin"
    /\ resp[p].status = 500
    /\ \E k \in DOMAIN accounts : accounts[k].email = req[p].email

(* ---- C9 ---- *)
\* C9: when no attempt was consumed twice, every verifyLogin that consumed
\* its code is answered with a token for the account of its email, also when
\* another login created that account in the meantime.
C9_CreateRaceTolerated ==
  (\A i \in DOMAIN consumed : consumed[i] <= 1) =>
    \A p \in Procs :
      (Done(p) /\ req[p].op = "verifyLogin" /\ ~IsInvalidOrExpiredCode(resp[p]))
      => /\ IsSuccess(resp[p])
         /\ \E k \in DOMAIN accounts :
              /\ accounts[k].email = req[p].email
              /\ accounts[k].accountid = resp[p].token.accountId

C11_AnyOutstandingCodeVerifies ==
  [][ \A p \in Procs :
        /\ (StartsVerify(p) /\ UsableOf(req'[p].email, req'[p].code) # {})
             => /\ pc'[p] = "update"
                /\ loc'[p].matched \in UsableOf(req'[p].email, req'[p].code)
        /\ (pc[p] = "commit" /\ pc'[p] = "find")
             => \E i \in UnusedOf(req[p].email, req[p].code) :
                  login_attempts' = [login_attempts EXCEPT ![i].is_used = TRUE]
        /\ (StartsVerify(p) \/ pc[p] \in {"update", "find", "create", "touch"})
             => login_attempts' = login_attempts
        /\ CompletesLogin(p) => IsSuccess(resp'[p]) ]_vars

\* the older of two outstanding codes of an email has been verified: its
\* attempt is used, the newer attempt and the attempt of the other email are
\* still unused
C11_Witness ==
  \E p \in Procs :
    /\ Done(p) /\ req[p].op = "verifyLogin" /\ IsSuccess(resp[p])
    /\ \E i \in UsedOf(req[p].email, req[p].code) :
         \E j \in DOMAIN login_attempts :
           /\ login_attempts[j].email = req[p].email
           /\ login_attempts[j].code # req[p].code
           /\ login_attempts[j].created_at > login_attempts[i].created_at
           /\ ~login_attempts[j].is_used
           /\ AgeOf(j) < loginCodeExpiryMinutes
    /\ \E k \in DOMAIN login_attempts :
         login_attempts[k].email # req[p].email /\ ~login_attempts[k].is_used

(* ---- C17 ---- *)
\* unused attempts of the email that are not yet more than an hour old
UnusedUpToAnHour(email) ==
  Cardinality({i \in DOMAIN login_attempts :
     /\ login_attempts[i].email = email
     /\ ~login_attempts[i].is_used
     /\ AgeOf(i) <= LockoutWindowMinutes})

\* C17: a requestLogin answered while the email has LockoutThreshold unused
\* attempts in the last hour is refused and records no attempt; once enough
\* of those attempts are more than an hour old that fewer than
\* LockoutThreshold remain, requestLogin is no longer refused as locked.
C17_LockoutIsTemporary ==
  [][ \A p \in Procs :
        /\ (AnswersRequest(p) /\ UnusedInLastHour(req[p].email) >= LockoutThreshold)
             => /\ pc'[p] = "idle"
                /\ IsLockoutRefusal(resp'[p])
                /\ login_attempts' = login_attempts
        /\ (AnswersRequest(p) /\ UnusedUpToAnHour(req[p].email) < LockoutThreshold)
             => \/ pc'[p] = "store"
                \/ pc'[p] = "idle" /\ IsRateLimited(resp'[p]) ]_vars

\* a requestLogin has been accepted although the table holds LockoutThreshold
\* older unused attempts of the email that were stored within one hour: the
\* oldest of them is now an hour old
C17_Witness ==
  \E p \in Procs :
    /\ Done(p) /\ req[p].op = "requestLogin" /\ IsSuccess(resp[p])
    /\ Len(login_attempts) > LockoutThreshold
    /\ \A i \in 1..LockoutThreshold :
         /\ login_attempts[i].email = req[p].email
         /\ ~login_attempts[i].is_used
    /\ login_attempts[LockoutThreshold].created_at - login_attempts[1].created_at
         < LockoutWindowMinutes
    /\ AgeOf(1) >= LockoutWindowMinutes
    /\ AgeOf(Len(login_attempts)) < rateLimitMinutes

(* ---- C18 ---- *)
\* slot p takes a step of a requestLogin that has not passed the checks of
\* canRequestLoginCode: it starts the request or has it refused
ChecksRequest(p) ==
  \/ pc[p] = "idle" /\ pc'[p] = "lockout"
  \/ pc[p] = "lockout" /\ pc'[p] = "idle"

\* C18: a requestLogin that is refused, as rate limited or as locked out,
\* has stored no attempt, generated no code and sent no email, and its
\* response carries neither a code nor a token.
C18_RefusalHasNoEffect ==
  [][ \A p \in Procs : ChecksRequest(p) =>
        /\ login_attempts' = login_attempts
        /\ outbox' = outbox
        /\ loc'[p].loginCode = NoCode
        /\ pc'[p] = "idle" =>
             /\ IsRateLimited(resp'[p]) \/ IsLockoutRefusal(resp'[p])
             /\ resp'[p].token = NoToken ]_vars

\* a requestLogin has been refused as locked out: every attempt in the table
\* is an earlier one, and each of them was mailed once
C18_Witness ==
  \E p \in Procs :
    /\ Done(p) /\ req[p].op = "requestLogin" /\ IsLockoutRefusal(resp[p])
    /\ UnusedInLastHour(req[p].email) >= LockoutThreshold
    /\ Len(login_attempts) = LockoutThreshold
    /\ BagCardinality(outbox) = LockoutThreshold

(* ---- C14 ---- *)
\* C14: a verifyLogin whose updateLastLogin failed, at pool.connect() or at
\* the update, is still answered with the token of the account of its email.
C14_TouchFailureSwallowed ==
  \A p \in Procs :
    (Done(p) /\ fault[p].op = "updateLastLogin")
    => /\ IsSuccess(resp[p])
       /\ resp[p].token.email = req[p].email
       /\ \E k \in DOMAIN accounts :
            /\ accounts[k].email = req[p].email
            /\ accounts[k].accountid = resp[p].token.accountId

(* ---- C15 ---- *)
DatabaseSteps == {"connect", "query", "rollback"}
\* the error a caller may see after store operation op failed
GenericAnswers(op) ==
  {surfaced(op, GenericError(op)), errorHandler(PlainError(GenericError(op)))}
\* messages that carry the text of the database error
RawTexts == {RawDbError, completionFailed(RawDbError)}

\* C15: a request in which a call to the database failed inside a store
\* operation other than updateLastLogin is answered with the fixed generic
\* error of that operation, and no response carries the text of the
\* database error.
C15_OnlyGenericErrors ==
  \A p \in Procs :
    /\ ( /\ Done(p)
         /\ fault[p].step \in DatabaseSteps
         /\ fault[p].op # "updateLastLogin" )
       => resp[p] \in GenericAnswers(fault[p].op)
    /\ Done(p) => resp[p].message \notin RawTexts

(* ---- C16 ---- *)
\* requests inside canRequestLoginCode or verifyLoginCode
InStoreOperation == {p \in Procs : pc[p] \in {"lockout", "update", "commit", "rollback"}}

\* C16: the checked-out clients are those of the store operations in
\* progress, one each: no client is released twice, and when every request
\* has been answered none is checked out.
C16_ClientsReleased ==
  /\ clients >= 0
  /\ clients = Cardinality(InStoreOperation)
  /\ (\A p \in Procs : pc[p] = "idle") => clients = 0

\* a verifyLogin whose transaction failed and whose rollback failed as well
\* has been answered, and no client is checked out
C16_Witness ==
  \E p \in Procs :
    /\ Done(p) /\ req[p].op = "verifyLogin"
    /\ fault[p] = [op |-> "verifyLoginCode", step |-> "rollback"]
    /\ \A q \in Procs : pc[q] = "idle"
    /\ clients = 0

(* ---- C19 ---- *)
IsDeliveryFailure(r) == r.status = 500 /\ r.error = "Failed to send login code"
IsAuthError(r) ==
  \/ IsRateLimited(r) \/ IsLockoutRefusal(r) \/ IsAccountLocked(r)
  \/ IsInvalidOrExpiredCode(r)

\* C19: a requestLogin whose email the provider did not accept is answered
\* with a delivery failure: not with a success, not with an authentication
\* error.
C19_DeliveryFailureSurfaces ==
  \A p \in Procs :
    (Done(p) /\ fault[p].op = "sendLoginCode")
    => /\ IsDeliveryFailure(resp[p])
       /\ ~IsSuccess(resp[p])
       /\ ~IsAuthError(resp[p])

(* ---- C12 ---- *)
\* the request in flight is answered or passed on by authenticateJWT, which
\* found a Bearer header
VerifiesToken ==
  /\ Current = "authenticateJWT"
  /\ api.header.scheme = "Bearer"
  /\ api' # api
SignedByServer(h) == h.wellformed /\ h.token.key = jwtSecret
Refused(a, status, error) ==
  a.step = 0 /\ a.status = status /\ a.error = error /\ ~a.handled /\ a.user = NoUser

\* C12: the payload of a token is accepted, and its accountId and email are
\* what verifyToken answers, exactly when the token is signed with the server
\* secret, the clock is before its exp and nothing else fails; a token of the
\* server past its exp is refused as "Token expired", a malformed token or
\* one signed with another secret as "Invalid token", a token that fails in
\* another way (its nbf is still ahead) as "Token validation failed": three
\* different answers.
C12_VerifyTokenOutcomes ==
  [][ /\ VerifiesToken =>
           /\ ( /\ SignedByServer(api.header)
                /\ date_now < api.header.token.exp
                /\ api.header.token.nbf <= date_now )
              <=> ( /\ api'.step = api.step + 1
                    /\ api'.user = [accountId |-> api.header.token.accountId,
                                    email |-> api.header.token.email] )
           /\ ( /\ SignedByServer(api.header)
                /\ date_now >= api.header.token.exp
                /\ api.header.token.nbf <= date_now )
              => Refused(api', 401, "Token expired")
           /\ ~SignedByServer(api.header) => Refused(api', 401, "Invalid token")
           /\ (SignedByServer(api.header) /\ api.header.token.nbf > date_now)
              => Refused(api', 500, "Token validation failed")
      /\ (Current = "verifyToken" /\ api' # api) =>
           /\ api'.status = 200
           /\ api'.account = api.user
           /\ api.user # NoUser ]_vars

\* a token that verifyLogin returned has been refused as expired, exactly
\* jwtExpiresInDays days after it was issued
C12_Witness ==
  /\ api.step = 0
  /\ api.status = 401 /\ api.error = "Token expired"
  /\ api.header.token \in IssuedTokens
  /\ date_now = api.header.token.iat + jwtExpiresInDays

(* ---- C13 ---- *)
\* C13: requestLogin stores the code it generated as an unused attempt of the
\* email; for an email without an account the verifyLogin that consumed the
\* code creates the account under an id no account had, and answers with a
\* token for that id and email; GET /auth/verify with a token verifyLogin
\* returned, before its exp, answers with the accountId and email of the token.
C13_RoundTrip ==
  [][ /\ \A p \in Procs :
           /\ (pc[p] = "store" /\ pc'[p] = "send")
                => login_attempts' = Append(login_attempts,
                     [email |-> req[p].email, code |-> loc'[p].loginCode,
                      created_at |-> now, is_used |-> FALSE])
           /\ (pc[p] = "create" /\ pc'[p] = "touch")
                => /\ ~emailTaken(req[p].email)
                   /\ \A k \in DOMAIN accounts : accounts[k].accountid # loc'[p].accountId
                   /\ accounts' = Append(accounts,
                        [accountid |-> loc'[p].accountId, email |-> req[p].email])
           /\ (CompletesLogin(p) /\ IsSuccess(resp'[p]))
                => /\ resp'[p].token.accountId = loc[p].accountId
                   /\ resp'[p].token.email = req[p].email
                   /\ UsedOf(req[p].email, req[p].code) # {}
                   /\ \E k \in DOMAIN accounts :
                        accounts[k] = [accountid |-> resp'[p].token.accountId,
                                       email |-> req[p].email]
      /\ ( /\ VerifiesToken
           /\ api.header.wellformed
           /\ api.header.token \in IssuedTokens
           /\ date_now < api.header.token.exp )
         => /\ api'.step = api.step + 1
            /\ api'.user = [accountId |-> api.header.token.accountId,
                            email |-> api.header.token.email]
      /\ (Current = "verifyToken" /\ api' # api)
         => api'.status = 200 /\ api'.account = api.user ]_vars

\* the first login of an email has created account 1, and GET /auth/verify
\* with the token it returned has answered that account id and email
C13_Witness ==
  \E p \in Procs :
    /\ Done(p) /\ req[p].op = "verifyLogin" /\ IsSuccess(resp[p])
    /\ accounts = <<[accountid |-> resp[p].token.accountId, email |-> req[p].email]>>
    /\ UsedOf(req[p].email, req[p].code) # {}
    /\ BagIn([to |-> req[p].email, code |-> req[p].code], outbox)
    /\ api.step = 0 /\ api.endpoint = "GET /auth/verify"
    /\ api.header = Bearer(resp[p].token)
    /\ api.status = 200
    /\ api.account = [accountId |-> resp[p].token.accountId, email |-> req[p].email]

(* ---- C20 ---- *)
\* C20: the controller of a route the README marks "Auth Required: Yes" has
\* run only for a request with a Bearer token signed with the server secret
\* that authenticateJWT accepted.
C20_ProtectedRoutesNeedToken ==
  (api.handled /\ api.endpoint \in AuthRequired)
  => /\ api.header.scheme = "Bearer"
     /\ SignedByServer(api.header)
     /\ api.user = [accountId |-> api.header.token.accountId,
                    email |-> api.header.token.email]

(* ---- C29 ---- *)
\* slot p is answered by a completeLogin that threw
CompletionFails(p) == CompletesLogin(p) /\ ~IsSuccess(resp'[p])
\* the last request of slot p was a verifyLogin whose completeLogin threw
CompletionFailed(p) ==
  /\ pc[p] = "idle" /\ req[p].op = "verifyLogin"
  /\ resp[p].status = 500
  /\ \/ fault[p].op \in {"findAccountByEmail", "createAccount", "updateLastLogin"}
     \/ resp[p].message = completionFailed(GenericError("createAccount"))
\* slot p starts a verifyLogin with the email and code of its last request,
\* and the select of verifyLoginCode runs
Retries(p) ==
  /\ StartsVerify(p)
  /\ pc'[p] \in {"update", "commit"}
  /\ req'[p].email = req[p].email
  /\ req'[p].code = req[p].code

RunsAuthenticateJWT == Current = "authenticateJWT" /\ api' # api
RunsOptionalAuthentication == Current = "optionalAuthentication" /\ api' # api
\* it calls next(): the chain moves on and no response has been sent
CallsNext == api'.step = api.step + 1 /\ api'.status = 0
\* it sends one 401 or 500 response and the chain ends
RejectsRequest == api'.step = 0 /\ api'.status \in {401, 500} /\ api'.user = api.user
\* req.user carries the account of the token
UserFromToken ==
  api'.user = [accountId |-> api.header.token.accountId,
               email |-> api.header.token.email]
BearerHeader == api.header.scheme = "Bearer"
TokenVerifies == BearerHeader /\ jwtVerify(api.header) = ""

\* C25: authenticateJWT calls next, with req.user taken from the token, only
\* when the header starts with "Bearer " and the token verifies, and otherwise
\* sends one 401 or 500 response without calling next; optionalAuthentication
\* calls next with user = null only when there is no Bearer header, and with a
\* Bearer header it does what authenticateJWT does.
C25_AuthMiddleware ==
  [][ /\ RunsAuthenticateJWT =>
           IF TokenVerifies THEN CallsNext /\ UserFromToken ELSE RejectsRequest
      /\ RunsOptionalAuthentication =>
           IF ~BearerHeader THEN CallsNext /\ api'.user = NoUser
           ELSE IF TokenVerifies THEN CallsNext /\ UserFromToken
           ELSE RejectsRequest /\ api'.error \in {"Token expired", "Invalid token",
                                                   "Token validation failed"} ]_vars

\* optionalAuthentication has rejected an expired token that verifyLogin had
\* issued
C25_Witness ==
  /\ api.endpoint = OptionalRoute /\ api.step = 0
  /\ api.status = 401 /\ api.error = "Token expired"
  /\ api.header.token \in IssuedTokens
  /\ ~api.handled

(* ---- C22 ---- *)
\* a step that is a call of isAllowed; Called is the key it was made for
IsAllowedStep == rl_last' # rl_last
Called == rl_last'.key
\* the call falls into the window the key already has
InsideWindow == rl_window[Called] # NoWindow /\ rl_now <= rl_window[Called].resetTime
\* the call is the first one after the end of the key's window
AfterWindow == rl_window[Called] # NoWindow /\ rl_now > rl_window[Called].resetTime

\* C22: of the isAllowed calls made for a key from the start of a window
\* until its resetTime at most `limit` return allowed = true (an allowed
\* call is at most the limit-th allowed call of its window), every further
\* call in the window returns allowed = false with remaining = 0, and
\* remaining is never negative, whatever the key, the limit and the window.
C22_AtMostLimitPerWindow ==
  [][ IsAllowedStep =>
        /\ rl_last'.result.allowed => rl_window'[Called].allowed <= rl_last'.limit
        /\ (InsideWindow /\ rl_window[Called].allowed >= rl_last'.limit) =>
             (~rl_last'.result.allowed /\ rl_last'.result.remaining = 0)
        /\ rl_last'.result.remaining >= 0 ]_vars

(* ---- C23 ---- *)
\* what the middleware of a preset would get from isAllowed for the client
Answer(preset) ==
  isAllowed(requests, ClientIp, rateLimitPresets[preset].max,
            rateLimitPresets[preset].windowMs).result
\* the step is a request that went through the middleware of the preset
CountedBy(preset) ==
  /\ IsAllowedStep
  /\ rl_last'.limit = rateLimitPresets[preset].max
  /\ rl_last'.windowMs = rateLimitPresets[preset].windowMs

\* C23: a request counted by one preset leaves what every other preset
\* answers the same IP as it was: it takes nothing from the other preset's
\* allowance and does not set its window.
C23_PresetsIndependent ==
  [][ \A preset \in DOMAIN rateLimitPresets : \A other \in DOMAIN rateLimitPresets \ {preset} :
        CountedBy(preset) => Answer(other)' = Answer(other) ]_vars

(* ---- C24 ---- *)
\* C24: a call inside a window leaves the window's resetTime as it is; the
\* first call after resetTime is allowed and starts a new window with count
\* 1; and every call returns what it would return had cleanup() never run.
C24_FixedWindow ==
  [][ IsAllowedStep =>
        /\ InsideWindow =>
             /\ requests'[Called].resetTime = rl_window[Called].resetTime
             /\ rl_last'.result.resetTime = rl_window[Called].resetTime
        /\ AfterWindow =>
             /\ rl_last'.result.allowed
             /\ requests'[Called] =
                  [count |-> 1, resetTime |-> rl_now + rl_last'.windowMs]
        /\ rl_last'.result = rl_last'.kept ]_vars

\* a key that had been refused in its window was called again after the
\* window ended and after cleanup() had removed its record, and was allowed
C24_Witness ==
  /\ rl_last.cleaned
  /\ rl_last.result.allowed /\ rl_last.result.count = 1
  /\ rl_last.limit > 0
  /\ \E k \in Keys \ {rl_last.key} :
       /\ requests[k] # NoRecord
       /\ requests[k].count > MaxCount - 1
       /\ rl_window[k].allowed < requests[k].count

(* ---- C21 ---- *)
\* both runs end alike: the same candidate matched, or none in both
SameOutcome == timing.matched[1] = timing.matched[2]

\* C21: the time verifyLoginCode spends comparing the supplied code does not
\* depend on where the code first differs from a stored code: two runs that
\* differ only in the content of the stored codes, and end alike, compare the
\* same number of bytes.
C21_ConstantTimeComparison ==
  (timing # NoTiming /\ SameOutcome) => timing.time[1] = timing.time[2]

\* the same for the variant that compares with crypto.timingSafeEqual
TimingSafeVariantIsConstantTime ==
  (timing.variant = "timingSafeEqual" /\ SameOutcome) => timing.time[1] = timing.time[2]

(* ---- C26 ---- *)
Requests == Len(backup.requests)
LastOutcome == backup.requests[Requests]
BackupExited == backup.pc = "exited"

\* C26: the job makes at most maxRetries + 1 requests and none after the
\* first 200; it sleeps between two attempts only, never after the last; and
\* it always terminates, with exit code 0 when an attempt got 200 or the
\* last one got 429, with exit code 1 when the last one got another status
\* or threw.
C26_BackupRetries ==
  /\ [](Requests <= backup.maxRetries + 1)
  /\ [](\A i \in 1..(Requests - 1) : backup.requests[i] # resolved(200))
  /\ [](Len(backup.sleeps) = IF BackupExited /\ Requests > 0 THEN Requests - 1
                             ELSE Requests)
  /\ []((BackupExited /\ Requests > 0) =>
          /\ backup.exit = 0 <=> LastOutcome \in {resolved(200), resolved(429)}
          /\ backup.exit = 1 <=> LastOutcome \notin {resolved(200), resolved(429)})
  /\ <>BackupExited

\* the job has used up its retries and the last answer was 429
C26_Witness ==
  /\ BackupExited /\ backup.exit = 0
  /\ backup.maxRetries = MaxRetries
  /\ Requests = backup.maxRetries + 1
  /\ LastOutcome = resolved(429)
  /\ Len(backup.sleeps) = backup.maxRetries

(* ---- C27 ---- *)
ShutdownBegun == server.shutdowns > 0
Exited == server.exit # NoExit

\* C27: after a shutdown signal the pool is ended only once the HTTP server
\* has finished closing; the process exits with code 0 only when the pool
\* has ended without error; and the process eventually exits, by the
\* 10-second timer with code 1 if the server has not finished closing.
C27_GracefulShutdown ==
  /\ [](server.pool # "open" => server.http = "closed")
  /\ [](server.exit = 0 => server.pool = "ended")
  /\ []((Exited /\ server.http # "closed") =>
          (server.exit = 1 /\ server.elapsed = forceShutdownSeconds))
  /\ [](server.elapsed <= forceShutdownSeconds)
  /\ ShutdownBegun ~> Exited

\* the server never finished closing and the timer has forced the exit
C27_Witness ==
  /\ server.http = "closing" /\ server.pool = "open"
  /\ server.exit = 1 /\ server.elapsed = forceShutdownSeconds

(* ---- C28 ---- *)
\* a step of the run in progress, not the start of a new process
SameRun == migration'.starts = migration.starts
\* runMigration is called for a file
RunsMigration == SameRun /\ migration'.executed # migration.executed
\* the run fails
MigrationFails == SameRun /\ migration.pc # "failed" /\ migration'.pc = "failed"

\* C28: the pending files are run in ascending filename order; a filename is
\* in the migrations table exactly when the SQL of the file is committed, and
\* it is committed once; a failing migration leaves the table and the
\* committed SQL as they were, no later migration is attempted and
\* initialization fails; a recorded migration is never run again.
C28_Migrations ==
  /\ [](\A i \in DOMAIN migration.executed : \A j \in DOMAIN migration.executed :
          /\ migration.executed[i] = migration.pending[i]
          /\ i < j => rank(migration.executed[i]) < rank(migration.executed[j]))
  /\ [](\A f \in Files :
          /\ f \in migration.table <=> migration.applied[f] = 1
          /\ migration.applied[f] <= 1)
  /\ [](migration.isInitialized <=> migration.pc = "initialized")
  /\ [](migration.isInitialized =>
          {f \in migration.folder : endsWithSql(f)} \subseteq migration.table)
  /\ [][ /\ RunsMigration =>
              migration'.executed[Len(migration'.executed)] \notin migration.table
         /\ MigrationFails =>
              /\ migration'.table = migration.table
              /\ migration'.applied = migration.applied
              /\ ~migration'.isInitialized
         /\ (SameRun /\ migration.pc = "failed") => migration' = migration ]_vars

\* the second of three pending migrations failed after its SQL had run: only
\* the first is recorded and the third was never attempted
C28_Witness ==
  /\ migration.pc = "failed"
  /\ Len(migration.pending) = 3 /\ Len(migration.executed) = 2
  /\ migration.table = {migration.executed[1]}
  /\ migration.applied[migration.executed[2]] = 0
  /\ "README.md" \in migration.folder

====
